---- MODULE Spec2Model ----
(***************************************************************************)
(* Model of the yt-transcriptor services:                                  *)
(*   - WebContentService (app/web_content_service.py): URL validation, the *)
(*     three extraction strategies and the extract_content cascade;        *)
(*   - SentimentAnalyzer.clean_transcript (sentiment_analyzer.py);         *)
(*   - TranscriptService.format_transcript (app/transcript_service.py).    *)
(*                                                                         *)
(* Conventions.  A Python str is a sequence of one-character strings.  A   *)
(* Python dict is a record; a key whose value is None is left out of the   *)
(* record, so dict.get(k) is None exactly when k is not in DOMAIN.         *)
(***************************************************************************)
EXTENDS Integers, Sequences, FiniteSets, TLC

VARIABLES
    url,                 \* argument of extract_content
    pc,                  \* position inside extract_content
    calls,               \* strategies invoked so far, in order
    trafilatura_result,  \* local of extract_content (line 228)
    newspaper_result,    \* local of extract_content (line 233)
    bs_result,           \* local of extract_content (line 238)
    ret,                 \* return value of extract_content
    transcript,          \* str argument of clean_transcript
    segments,            \* transcript_data argument of format_transcript
    tpc,                 \* position inside the text pipeline
    cleaned,             \* clean_transcript(transcript)
    recleaned,           \* clean_transcript(cleaned)
    qpc,                 \* position of the sentiment analyzer call
    split_text,          \* argument text of split_into_sentences
    sentences,           \* return value of split_into_sentences
    spans,               \* where in split_text each element of sentences was taken from
    top_n,               \* argument of get_top_quotes
    sentiment_type,      \* argument of get_top_quotes
    analyzed_sentences,  \* local of get_top_quotes (lines 68-77)
    filtered_sentences,  \* local of get_top_quotes (lines 80-90)
    top_quotes,          \* return value of get_top_quotes
    quote_text,          \* argument text of format_quote
    quote,               \* return value of format_quote
    reqs,                \* the extract_content calls in progress, one record each
    overlapped,          \* a call took a step while another was between its steps
    sentiment_results,   \* return value of enhanced_client.analyze_sentiment
    apc,                 \* position of the call of the API or of the transcript service
    endpoint,            \* the route of the request
    api_url,             \* str(request.url); the url argument of extract_video_id
    language,            \* request.language
    format_text,         \* request.format_text
    library,             \* what youtube_transcript_api and the page's servers answer
    video_id,            \* return value of extract_video_id
    api_result,          \* the local result of the handler
    api_calls,           \* the service methods the handler has called, in order
    response             \* what the handler returns or raises

vars == <<url, pc, calls, trafilatura_result, newspaper_result, bs_result, ret,
          transcript, segments, tpc, cleaned, recleaned,
          qpc, split_text, sentences, spans, top_n, sentiment_type,
          analyzed_sentences, filtered_sentences, top_quotes, quote_text, quote,
          reqs, overlapped, sentiment_results,
          apc, endpoint, api_url, language, format_text, library, video_id,
          api_result, api_calls, response>>

webVars == <<url, pc, calls, trafilatura_result, newspaper_result, bs_result, ret>>
textVars == <<transcript, segments, tpc, cleaned, recleaned>>
quoteVars == <<qpc, split_text, sentences, spans, top_n, sentiment_type,
               analyzed_sentences, filtered_sentences, top_quotes, quote_text, quote,
               sentiment_results>>
conVars == <<reqs, overlapped>>
apiVars == <<apc, endpoint, api_url, language, format_text, library, video_id,
             api_result, api_calls, response>>

----------------------------------------------------------------------------
(* Bounds of the model *)

MaxUrlLen == 5

MaxPieces == 4

MaxSegs == 2

MaxParts == 3

MaxQuoteParts == 3

MaxTopN == 2

MaxIdParts == 3

----------------------------------------------------------------------------
(* Generic helpers *)

Rep(n) == [i \in 1..n |-> "x"]

SeqsUpTo(S, n) == UNION {[1..k -> S] : k \in 0..n}

\* dict.get(key) is truthy: the key is present and its value is not ''
Truthy(d, key) == key \in DOMAIN d /\ d[key] # <<>>

\* 1-based index of the first occurrence of c in s at or after i, 0 if none
RECURSIVE FindFrom(_, _, _)
FindFrom(s, c, i) ==
    IF i > Len(s) THEN 0
    ELSE IF s[i] = c THEN i
    ELSE FindFrom(s, c, i + 1)

----------------------------------------------------------------------------
(* Characters.  A character that has no literal is written by its code      *)
(* point, "U+00E9"; it is one element of the sequence, as every character.  *)

LowerChars ==
    {"a", "b", "c", "d", "e", "f", "g", "h", "i", "j", "k", "l", "m",
     "n", "o", "p", "q", "r", "s", "t", "u", "v", "w", "x", "y", "z"}

UpperChars ==
    {"A", "B", "C", "D", "E", "F", "G", "H", "I", "J", "K", "L", "M",
     "N", "O", "P", "Q", "R", "S", "T", "U", "V", "W", "X", "Y", "Z"}

Alphabet ==
    <<"a", "b", "c", "d", "e", "f", "g", "h", "i", "j", "k", "l", "m",
      "n", "o", "p", "q", "r", "s", "t", "u", "v", "w", "x", "y", "z">>

Capitals ==
    <<"A", "B", "C", "D", "E", "F", "G", "H", "I", "J", "K", "L", "M",
      "N", "O", "P", "Q", "R", "S", "T", "U", "V", "W", "X", "Y", "Z">>

DigitChars == <<"0", "1", "2", "3", "4", "5", "6", "7", "8", "9">>

AsciiDigits == {DigitChars[k] : k \in 1..10}

HexChars == AsciiDigits \cup {"a", "b", "c", "d", "e", "f", "A", "B", "C", "D", "E", "F"}

\* the other characters \s and str.strip take for whitespace
OtherSpaces ==
    {"U+000B", "\f", "\r", "U+001C", "U+001D", "U+001E", "U+001F", "U+0085",
     "U+00A0", "U+1680", "U+2000", "U+2001", "U+2002", "U+2003", "U+2004",
     "U+2005", "U+2006", "U+2007", "U+2008", "U+2009", "U+200A", "U+2028",
     "U+2029", "U+202F", "U+205F", "U+3000"}

HexDigits == DigitChars \o <<"A", "B", "C", "D", "E", "F">>

\* the character of code point n, for n from 128: "U+" and the code point in
\* hexadecimal, of four digits at least
Chr(n) ==
    LET low == HexDigits[((n \div 4096) % 16) + 1] \o HexDigits[((n \div 256) % 16) + 1]
               \o HexDigits[((n \div 16) % 16) + 1] \o HexDigits[(n % 16) + 1]
    IN  IF n < 65536 THEN "U+" \o low
        ELSE IF n < 1048576 THEN "U+" \o HexDigits[(n \div 65536) + 1] \o low
        ELSE "U+10" \o low

\* the code points from 128 that \d matches (category Nd), as ranges
DigitRanges ==
    {<<\h0660, \h0669>>, <<\h06F0, \h06F9>>, <<\h07C0, \h07C9>>, <<\h0966, \h096F>>,
     <<\h09E6, \h09EF>>, <<\h0A66, \h0A6F>>, <<\h0AE6, \h0AEF>>, <<\h0B66, \h0B6F>>,
     <<\h0BE6, \h0BEF>>, <<\h0C66, \h0C6F>>, <<\h0CE6, \h0CEF>>, <<\h0D66, \h0D6F>>,
     <<\h0DE6, \h0DEF>>, <<\h0E50, \h0E59>>, <<\h0ED0, \h0ED9>>, <<\h0F20, \h0F29>>,
     <<\h1040, \h1049>>, <<\h1090, \h1099>>, <<\h17E0, \h17E9>>, <<\h1810, \h1819>>,
     <<\h1946, \h194F>>, <<\h19D0, \h19D9>>, <<\h1A80, \h1A89>>, <<\h1A90, \h1A99>>,
     <<\h1B50, \h1B59>>, <<\h1BB0, \h1BB9>>, <<\h1C40, \h1C49>>, <<\h1C50, \h1C59>>,
     <<\hA620, \hA629>>, <<\hA8D0, \hA8D9>>, <<\hA900, \hA909>>, <<\hA9D0, \hA9D9>>,
     <<\hA9F0, \hA9F9>>, <<\hAA50, \hAA59>>, <<\hABF0, \hABF9>>, <<\hFF10, \hFF19>>,
     <<\h104A0, \h104A9>>, <<\h10D30, \h10D39>>, <<\h11066, \h1106F>>, <<\h110F0, \h110F9>>,
     <<\h11136, \h1113F>>, <<\h111D0, \h111D9>>, <<\h112F0, \h112F9>>, <<\h11450, \h11459>>,
     <<\h114D0, \h114D9>>, <<\h11650, \h11659>>, <<\h116C0, \h116C9>>, <<\h11730, \h11739>>,
     <<\h118E0, \h118E9>>, <<\h11950, \h11959>>, <<\h11C50, \h11C59>>, <<\h11D50, \h11D59>>,
     <<\h11DA0, \h11DA9>>, <<\h16A60, \h16A69>>, <<\h16AC0, \h16AC9>>, <<\h16B50, \h16B59>>,
     <<\h1D7CE, \h1D7FF>>, <<\h1E140, \h1E149>>, <<\h1E2F0, \h1E2F9>>, <<\h1E950, \h1E959>>,
     <<\h1FBF0, \h1FBF9>>}

\* the decimal digits outside ASCII
OtherDigits == {Chr(n) : n \in UNION {r[1]..r[2] : r \in DigitRanges}}

\* the code points from 128 that \w matches (str.isalnum), as ranges
WordRanges ==
    {<<\h00AA, \h00AA>>, <<\h00B2, \h00B3>>, <<\h00B5, \h00B5>>, <<\h00B9, \h00BA>>,
     <<\h00BC, \h00BE>>, <<\h00C0, \h00D6>>, <<\h00D8, \h00F6>>, <<\h00F8, \h02C1>>,
     <<\h02C6, \h02D1>>, <<\h02E0, \h02E4>>, <<\h02EC, \h02EC>>, <<\h02EE, \h02EE>>,
     <<\h0370, \h0374>>, <<\h0376, \h0377>>, <<\h037A, \h037D>>, <<\h037F, \h037F>>,
     <<\h0386, \h0386>>, <<\h0388, \h038A>>, <<\h038C, \h038C>>, <<\h038E, \h03A1>>,
     <<\h03A3, \h03F5>>, <<\h03F7, \h0481>>, <<\h048A, \h052F>>, <<\h0531, \h0556>>,
     <<\h0559, \h0559>>, <<\h0560, \h0588>>, <<\h05D0, \h05EA>>, <<\h05EF, \h05F2>>,
     <<\h0620, \h064A>>, <<\h0660, \h0669>>, <<\h066E, \h066F>>, <<\h0671, \h06D3>>,
     <<\h06D5, \h06D5>>, <<\h06E5, \h06E6>>, <<\h06EE, \h06FC>>, <<\h06FF, \h06FF>>,
     <<\h0710, \h0710>>, <<\h0712, \h072F>>, <<\h074D, \h07A5>>, <<\h07B1, \h07B1>>,
     <<\h07C0, \h07EA>>, <<\h07F4, \h07F5>>, <<\h07FA, \h07FA>>, <<\h0800, \h0815>>,
     <<\h081A, \h081A>>, <<\h0824, \h0824>>, <<\h0828, \h0828>>, <<\h0840, \h0858>>,
     <<\h0860, \h086A>>, <<\h0870, \h0887>>, <<\h0889, \h088E>>, <<\h08A0, \h08C9>>,
     <<\h0904, \h0939>>, <<\h093D, \h093D>>, <<\h0950, \h0950>>, <<\h0958, \h0961>>,
     <<\h0966, \h096F>>, <<\h0971, \h0980>>, <<\h0985, \h098C>>, <<\h098F, \h0990>>,
     <<\h0993, \h09A8>>, <<\h09AA, \h09B0>>, <<\h09B2, \h09B2>>, <<\h09B6, \h09B9>>,
     <<\h09BD, \h09BD>>, <<\h09CE, \h09CE>>, <<\h09DC, \h09DD>>, <<\h09DF, \h09E1>>,
     <<\h09E6, \h09F1>>, <<\h09F4, \h09F9>>, <<\h09FC, \h09FC>>, <<\h0A05, \h0A0A>>,
     <<\h0A0F, \h0A10>>, <<\h0A13, \h0A28>>, <<\h0A2A, \h0A30>>, <<\h0A32, \h0A33>>,
     <<\h0A35, \h0A36>>, <<\h0A38, \h0A39>>, <<\h0A59, \h0A5C>>, <<\h0A5E, \h0A5E>>,
     <<\h0A66, \h0A6F>>, <<\h0A72, \h0A74>>, <<\h0A85, \h0A8D>>, <<\h0A8F, \h0A91>>,
     <<\h0A93, \h0AA8>>, <<\h0AAA, \h0AB0>>, <<\h0AB2, \h0AB3>>, <<\h0AB5, \h0AB9>>,
     <<\h0ABD, \h0ABD>>, <<\h0AD0, \h0AD0>>, <<\h0AE0, \h0AE1>>, <<\h0AE6, \h0AEF>>,
     <<\h0AF9, \h0AF9>>, <<\h0B05, \h0B0C>>, <<\h0B0F, \h0B10>>, <<\h0B13, \h0B28>>,
     <<\h0B2A, \h0B30>>, <<\h0B32, \h0B33>>, <<\h0B35, \h0B39>>, <<\h0B3D, \h0B3D>>,
     <<\h0B5C, \h0B5D>>, <<\h0B5F, \h0B61>>, <<\h0B66, \h0B6F>>, <<\h0B71, \h0B77>>,
     <<\h0B83, \h0B83>>, <<\h0B85, \h0B8A>>, <<\h0B8E, \h0B90>>, <<\h0B92, \h0B95>>,
     <<\h0B99, \h0B9A>>, <<\h0B9C, \h0B9C>>, <<\h0B9E, \h0B9F>>, <<\h0BA3, \h0BA4>>,
     <<\h0BA8, \h0BAA>>, <<\h0BAE, \h0BB9>>, <<\h0BD0, \h0BD0>>, <<\h0BE6, \h0BF2>>,
     <<\h0C05, \h0C0C>>, <<\h0C0E, \h0C10>>, <<\h0C12, \h0C28>>, <<\h0C2A, \h0C39>>,
     <<\h0C3D, \h0C3D>>, <<\h0C58, \h0C5A>>, <<\h0C5D, \h0C5D>>, <<\h0C60, \h0C61>>,
     <<\h0C66, \h0C6F>>, <<\h0C78, \h0C7E>>, <<\h0C80, \h0C80>>, <<\h0C85, \h0C8C>>,
     <<\h0C8E, \h0C90>>, <<\h0C92, \h0CA8>>, <<\h0CAA, \h0CB3>>, <<\h0CB5, \h0CB9>>,
     <<\h0CBD, \h0CBD>>, <<\h0CDD, \h0CDE>>, <<\h0CE0, \h0CE1>>, <<\h0CE6, \h0CEF>>,
     <<\h0CF1, \h0CF2>>, <<\h0D04, \h0D0C>>, <<\h0D0E, \h0D10>>, <<\h0D12, \h0D3A>>,
     <<\h0D3D, \h0D3D>>, <<\h0D4E, \h0D4E>>, <<\h0D54, \h0D56>>, <<\h0D58, \h0D61>>,
     <<\h0D66, \h0D78>>, <<\h0D7A, \h0D7F>>, <<\h0D85, \h0D96>>, <<\h0D9A, \h0DB1>>,
     <<\h0DB3, \h0DBB>>, <<\h0DBD, \h0DBD>>, <<\h0DC0, \h0DC6>>, <<\h0DE6, \h0DEF>>,
     <<\h0E01, \h0E30>>, <<\h0E32, \h0E33>>, <<\h0E40, \h0E46>>, <<\h0E50, \h0E59>>,
     <<\h0E81, \h0E82>>, <<\h0E84, \h0E84>>, <<\h0E86, \h0E8A>>, <<\h0E8C, \h0EA3>>,
     <<\h0EA5, \h0EA5>>, <<\h0EA7, \h0EB0>>, <<\h0EB2, \h0EB3>>, <<\h0EBD, \h0EBD>>,
     <<\h0EC0, \h0EC4>>, <<\h0EC6, \h0EC6>>, <<\h0ED0, \h0ED9>>, <<\h0EDC, \h0EDF>>,
     <<\h0F00, \h0F00>>, <<\h0F20, \h0F33>>, <<\h0F40, \h0F47>>, <<\h0F49, \h0F6C>>,
     <<\h0F88, \h0F8C>>, <<\h1000, \h102A>>, <<\h103F, \h1049>>, <<\h1050, \h1055>>,
     <<\h105A, \h105D>>, <<\h1061, \h1061>>, <<\h1065, \h1066>>, <<\h106E, \h1070>>,
     <<\h1075, \h1081>>, <<\h108E, \h108E>>, <<\h1090, \h1099>>, <<\h10A0, \h10C5>>,
     <<\h10C7, \h10C7>>, <<\h10CD, \h10CD>>, <<\h10D0, \h10FA>>, <<\h10FC, \h1248>>,
     <<\h124A, \h124D>>, <<\h1250, \h1256>>, <<\h1258, \h1258>>, <<\h125A, \h125D>>,
     <<\h1260, \h1288>>, <<\h128A, \h128D>>, <<\h1290, \h12B0>>, <<\h12B2, \h12B5>>,
     <<\h12B8, \h12BE>>, <<\h12C0, \h12C0>>, <<\h12C2, \h12C5>>, <<\h12C8, \h12D6>>,
     <<\h12D8, \h1310>>, <<\h1312, \h1315>>, <<\h1318, \h135A>>, <<\h1369, \h137C>>,
     <<\h1380, \h138F>>, <<\h13A0, \h13F5>>, <<\h13F8, \h13FD>>, <<\h1401, \h166C>>,
     <<\h166F, \h167F>>, <<\h1681, \h169A>>, <<\h16A0, \h16EA>>, <<\h16EE, \h16F8>>,
     <<\h1700, \h1711>>, <<\h171F, \h1731>>, <<\h1740, \h1751>>, <<\h1760, \h176C>>,
     <<\h176E, \h1770>>, <<\h1780, \h17B3>>, <<\h17D7, \h17D7>>, <<\h17DC, \h17DC>>,
     <<\h17E0, \h17E9>>, <<\h17F0, \h17F9>>, <<\h1810, \h1819>>, <<\h1820, \h1878>>,
     <<\h1880, \h1884>>, <<\h1887, \h18A8>>, <<\h18AA, \h18AA>>, <<\h18B0, \h18F5>>,
     <<\h1900, \h191E>>, <<\h1946, \h196D>>, <<\h1970, \h1974>>, <<\h1980, \h19AB>>,
     <<\h19B0, \h19C9>>, <<\h19D0, \h19DA>>, <<\h1A00, \h1A16>>, <<\h1A20, \h1A54>>,
     <<\h1A80, \h1A89>>, <<\h1A90, \h1A99>>, <<\h1AA7, \h1AA7>>, <<\h1B05, \h1B33>>,
     <<\h1B45, \h1B4C>>, <<\h1B50, \h1B59>>, <<\h1B83, \h1BA0>>, <<\h1BAE, \h1BE5>>,
     <<\h1C00, \h1C23>>, <<\h1C40, \h1C49>>, <<\h1C4D, \h1C7D>>, <<\h1C80, \h1C88>>,
     <<\h1C90, \h1CBA>>, <<\h1CBD, \h1CBF>>, <<\h1CE9, \h1CEC>>, <<\h1CEE, \h1CF3>>,
     <<\h1CF5, \h1CF6>>, <<\h1CFA, \h1CFA>>, <<\h1D00, \h1DBF>>, <<\h1E00, \h1F15>>,
     <<\h1F18, \h1F1D>>, <<\h1F20, \h1F45>>, <<\h1F48, \h1F4D>>, <<\h1F50, \h1F57>>,
     <<\h1F59, \h1F59>>, <<\h1F5B, \h1F5B>>, <<\h1F5D, \h1F5D>>, <<\h1F5F, \h1F7D>>,
     <<\h1F80, \h1FB4>>, <<\h1FB6, \h1FBC>>, <<\h1FBE, \h1FBE>>, <<\h1FC2, \h1FC4>>,
     <<\h1FC6, \h1FCC>>, <<\h1FD0, \h1FD3>>, <<\h1FD6, \h1FDB>>, <<\h1FE0, \h1FEC>>,
     <<\h1FF2, \h1FF4>>, <<\h1FF6, \h1FFC>>, <<\h2070, \h2071>>, <<\h2074, \h2079>>,
     <<\h207F, \h2089>>, <<\h2090, \h209C>>, <<\h2102, \h2102>>, <<\h2107, \h2107>>,
     <<\h210A, \h2113>>, <<\h2115, \h2115>>, <<\h2119, \h211D>>, <<\h2124, \h2124>>,
     <<\h2126, \h2126>>, <<\h2128, \h2128>>, <<\h212A, \h212D>>, <<\h212F, \h2139>>,
     <<\h213C, \h213F>>, <<\h2145, \h2149>>, <<\h214E, \h214E>>, <<\h2150, \h2189>>,
     <<\h2460, \h249B>>, <<\h24EA, \h24FF>>, <<\h2776, \h2793>>, <<\h2C00, \h2CE4>>,
     <<\h2CEB, \h2CEE>>, <<\h2CF2, \h2CF3>>, <<\h2CFD, \h2CFD>>, <<\h2D00, \h2D25>>,
     <<\h2D27, \h2D27>>, <<\h2D2D, \h2D2D>>, <<\h2D30, \h2D67>>, <<\h2D6F, \h2D6F>>,
     <<\h2D80, \h2D96>>, <<\h2DA0, \h2DA6>>, <<\h2DA8, \h2DAE>>, <<\h2DB0, \h2DB6>>,
     <<\h2DB8, \h2DBE>>, <<\h2DC0, \h2DC6>>, <<\h2DC8, \h2DCE>>, <<\h2DD0, \h2DD6>>,
     <<\h2DD8, \h2DDE>>, <<\h2E2F, \h2E2F>>, <<\h3005, \h3007>>, <<\h3021, \h3029>>,
     <<\h3031, \h3035>>, <<\h3038, \h303C>>, <<\h3041, \h3096>>, <<\h309D, \h309F>>,
     <<\h30A1, \h30FA>>, <<\h30FC, \h30FF>>, <<\h3105, \h312F>>, <<\h3131, \h318E>>,
     <<\h3192, \h3195>>, <<\h31A0, \h31BF>>, <<\h31F0, \h31FF>>, <<\h3220, \h3229>>,
     <<\h3248, \h324F>>, <<\h3251, \h325F>>, <<\h3280, \h3289>>, <<\h32B1, \h32BF>>,
     <<\h3400, \h4DBF>>, <<\h4E00, \hA48C>>, <<\hA4D0, \hA4FD>>, <<\hA500, \hA60C>>,
     <<\hA610, \hA62B>>, <<\hA640, \hA66E>>, <<\hA67F, \hA69D>>, <<\hA6A0, \hA6EF>>,
     <<\hA717, \hA71F>>, <<\hA722, \hA788>>, <<\hA78B, \hA7CA>>, <<\hA7D0, \hA7D1>>,
     <<\hA7D3, \hA7D3>>, <<\hA7D5, \hA7D9>>, <<\hA7F2, \hA801>>, <<\hA803, \hA805>>,
     <<\hA807, \hA80A>>, <<\hA80C, \hA822>>, <<\hA830, \hA835>>, <<\hA840, \hA873>>,
     <<\hA882, \hA8B3>>, <<\hA8D0, \hA8D9>>, <<\hA8F2, \hA8F7>>, <<\hA8FB, \hA8FB>>,
     <<\hA8FD, \hA8FE>>, <<\hA900, \hA925>>, <<\hA930, \hA946>>, <<\hA960, \hA97C>>,
     <<\hA984, \hA9B2>>, <<\hA9CF, \hA9D9>>, <<\hA9E0, \hA9E4>>, <<\hA9E6, \hA9FE>>,
     <<\hAA00, \hAA28>>, <<\hAA40, \hAA42>>, <<\hAA44, \hAA4B>>, <<\hAA50, \hAA59>>,
     <<\hAA60, \hAA76>>, <<\hAA7A, \hAA7A>>, <<\hAA7E, \hAAAF>>, <<\hAAB1, \hAAB1>>,
     <<\hAAB5, \hAAB6>>, <<\hAAB9, \hAABD>>, <<\hAAC0, \hAAC0>>, <<\hAAC2, \hAAC2>>,
     <<\hAADB, \hAADD>>, <<\hAAE0, \hAAEA>>, <<\hAAF2, \hAAF4>>, <<\hAB01, \hAB06>>,
     <<\hAB09, \hAB0E>>, <<\hAB11, \hAB16>>, <<\hAB20, \hAB26>>, <<\hAB28, \hAB2E>>,
     <<\hAB30, \hAB5A>>, <<\hAB5C, \hAB69>>, <<\hAB70, \hABE2>>, <<\hABF0, \hABF9>>,
     <<\hAC00, \hD7A3>>, <<\hD7B0, \hD7C6>>, <<\hD7CB, \hD7FB>>, <<\hF900, \hFA6D>>,
     <<\hFA70, \hFAD9>>, <<\hFB00, \hFB06>>, <<\hFB13, \hFB17>>, <<\hFB1D, \hFB1D>>,
     <<\hFB1F, \hFB28>>, <<\hFB2A, \hFB36>>, <<\hFB38, \hFB3C>>, <<\hFB3E, \hFB3E>>,
     <<\hFB40, \hFB41>>, <<\hFB43, \hFB44>>, <<\hFB46, \hFBB1>>, <<\hFBD3, \hFD3D>>,
     <<\hFD50, \hFD8F>>, <<\hFD92, \hFDC7>>, <<\hFDF0, \hFDFB>>, <<\hFE70, \hFE74>>,
     <<\hFE76, \hFEFC>>, <<\hFF10, \hFF19>>, <<\hFF21, \hFF3A>>, <<\hFF41, \hFF5A>>,
     <<\hFF66, \hFFBE>>, <<\hFFC2, \hFFC7>>, <<\hFFCA, \hFFCF>>, <<\hFFD2, \hFFD7>>,
     <<\hFFDA, \hFFDC>>, <<\h10000, \h1000B>>, <<\h1000D, \h10026>>, <<\h10028, \h1003A>>,
     <<\h1003C, \h1003D>>, <<\h1003F, \h1004D>>, <<\h10050, \h1005D>>, <<\h10080, \h100FA>>,
     <<\h10107, \h10133>>, <<\h10140, \h10178>>, <<\h1018A, \h1018B>>, <<\h10280, \h1029C>>,
     <<\h102A0, \h102D0>>, <<\h102E1, \h102FB>>, <<\h10300, \h10323>>, <<\h1032D, \h1034A>>,
     <<\h10350, \h10375>>, <<\h10380, \h1039D>>, <<\h103A0, \h103C3>>, <<\h103C8, \h103CF>>,
     <<\h103D1, \h103D5>>, <<\h10400, \h1049D>>, <<\h104A0, \h104A9>>, <<\h104B0, \h104D3>>,
     <<\h104D8, \h104FB>>, <<\h10500, \h10527>>, <<\h10530, \h10563>>, <<\h10570, \h1057A>>,
     <<\h1057C, \h1058A>>, <<\h1058C, \h10592>>, <<\h10594, \h10595>>, <<\h10597, \h105A1>>,
     <<\h105A3, \h105B1>>, <<\h105B3, \h105B9>>, <<\h105BB, \h105BC>>, <<\h10600, \h10736>>,
     <<\h10740, \h10755>>, <<\h10760, \h10767>>, <<\h10780, \h10785>>, <<\h10787, \h107B0>>,
     <<\h107B2, \h107BA>>, <<\h10800, \h10805>>, <<\h10808, \h10808>>, <<\h1080A, \h10835>>,
     <<\h10837, \h10838>>, <<\h1083C, \h1083C>>, <<\h1083F, \h10855>>, <<\h10858, \h10876>>,
     <<\h10879, \h1089E>>, <<\h108A7, \h108AF>>, <<\h108E0, \h108F2>>, <<\h108F4, \h108F5>>,
     <<\h108FB, \h1091B>>, <<\h10920, \h10939>>, <<\h10980, \h109B7>>, <<\h109BC, \h109CF>>,
     <<\h109D2, \h10A00>>, <<\h10A10, \h10A13>>, <<\h10A15, \h10A17>>, <<\h10A19, \h10A35>>,
     <<\h10A40, \h10A48>>, <<\h10A60, \h10A7E>>, <<\h10A80, \h10A9F>>, <<\h10AC0, \h10AC7>>,
     <<\h10AC9, \h10AE4>>, <<\h10AEB, \h10AEF>>, <<\h10B00, \h10B35>>, <<\h10B40, \h10B55>>,
     <<\h10B58, \h10B72>>, <<\h10B78, \h10B91>>, <<\h10BA9, \h10BAF>>, <<\h10C00, \h10C48>>,
     <<\h10C80, \h10CB2>>, <<\h10CC0, \h10CF2>>, <<\h10CFA, \h10D23>>, <<\h10D30, \h10D39>>,
     <<\h10E60, \h10E7E>>, <<\h10E80, \h10EA9>>, <<\h10EB0, \h10EB1>>, <<\h10F00, \h10F27>>,
     <<\h10F30, \h10F45>>, <<\h10F51, \h10F54>>, <<\h10F70, \h10F81>>, <<\h10FB0, \h10FCB>>,
     <<\h10FE0, \h10FF6>>, <<\h11003, \h11037>>, <<\h11052, \h1106F>>, <<\h11071, \h11072>>,
     <<\h11075, \h11075>>, <<\h11083, \h110AF>>, <<\h110D0, \h110E8>>, <<\h110F0, \h110F9>>,
     <<\h11103, \h11126>>, <<\h11136, \h1113F>>, <<\h11144, \h11144>>, <<\h11147, \h11147>>,
     <<\h11150, \h11172>>, <<\h11176, \h11176>>, <<\h11183, \h111B2>>, <<\h111C1, \h111C4>>,
     <<\h111D0, \h111DA>>, <<\h111DC, \h111DC>>, <<\h111E1, \h111F4>>, <<\h11200, \h11211>>,
     <<\h11213, \h1122B>>, <<\h11280, \h11286>>, <<\h11288, \h11288>>, <<\h1128A, \h1128D>>,
     <<\h1128F, \h1129D>>, <<\h1129F, \h112A8>>, <<\h112B0, \h112DE>>, <<\h112F0, \h112F9>>,
     <<\h11305, \h1130C>>, <<\h1130F, \h11310>>, <<\h11313, \h11328>>, <<\h1132A, \h11330>>,
     <<\h11332, \h11333>>, <<\h11335, \h11339>>, <<\h1133D, \h1133D>>, <<\h11350, \h11350>>,
     <<\h1135D, \h11361>>, <<\h11400, \h11434>>, <<\h11447, \h1144A>>, <<\h11450, \h11459>>,
     <<\h1145F, \h11461>>, <<\h11480, \h114AF>>, <<\h114C4, \h114C5>>, <<\h114C7, \h114C7>>,
     <<\h114D0, \h114D9>>, <<\h11580, \h115AE>>, <<\h115D8, \h115DB>>, <<\h11600, \h1162F>>,
     <<\h11644, \h11644>>, <<\h11650, \h11659>>, <<\h11680, \h116AA>>, <<\h116B8, \h116B8>>,
     <<\h116C0, \h116C9>>, <<\h11700, \h1171A>>, <<\h11730, \h1173B>>, <<\h11740, \h11746>>,
     <<\h11800, \h1182B>>, <<\h118A0, \h118F2>>, <<\h118FF, \h11906>>, <<\h11909, \h11909>>,
     <<\h1190C, \h11913>>, <<\h11915, \h11916>>, <<\h11918, \h1192F>>, <<\h1193F, \h1193F>>,
     <<\h11941, \h11941>>, <<\h11950, \h11959>>, <<\h119A0, \h119A7>>, <<\h119AA, \h119D0>>,
     <<\h119E1, \h119E1>>, <<\h119E3, \h119E3>>, <<\h11A00, \h11A00>>, <<\h11A0B, \h11A32>>,
     <<\h11A3A, \h11A3A>>, <<\h11A50, \h11A50>>, <<\h11A5C, \h11A89>>, <<\h11A9D, \h11A9D>>,
     <<\h11AB0, \h11AF8>>, <<\h11C00, \h11C08>>, <<\h11C0A, \h11C2E>>, <<\h11C40, \h11C40>>,
     <<\h11C50, \h11C6C>>, <<\h11C72, \h11C8F>>, <<\h11D00, \h11D06>>, <<\h11D08, \h11D09>>,
     <<\h11D0B, \h11D30>>, <<\h11D46, \h11D46>>, <<\h11D50, \h11D59>>, <<\h11D60, \h11D65>>,
     <<\h11D67, \h11D68>>, <<\h11D6A, \h11D89>>, <<\h11D98, \h11D98>>, <<\h11DA0, \h11DA9>>,
     <<\h11EE0, \h11EF2>>, <<\h11FB0, \h11FB0>>, <<\h11FC0, \h11FD4>>, <<\h12000, \h12399>>,
     <<\h12400, \h1246E>>, <<\h12480, \h12543>>, <<\h12F90, \h12FF0>>, <<\h13000, \h1342E>>,
     <<\h14400, \h14646>>, <<\h16800, \h16A38>>, <<\h16A40, \h16A5E>>, <<\h16A60, \h16A69>>,
     <<\h16A70, \h16ABE>>, <<\h16AC0, \h16AC9>>, <<\h16AD0, \h16AED>>, <<\h16B00, \h16B2F>>,
     <<\h16B40, \h16B43>>, <<\h16B50, \h16B59>>, <<\h16B5B, \h16B61>>, <<\h16B63, \h16B77>>,
     <<\h16B7D, \h16B8F>>, <<\h16E40, \h16E96>>, <<\h16F00, \h16F4A>>, <<\h16F50, \h16F50>>,
     <<\h16F93, \h16F9F>>, <<\h16FE0, \h16FE1>>, <<\h16FE3, \h16FE3>>, <<\h17000, \h187F7>>,
     <<\h18800, \h18CD5>>, <<\h18D00, \h18D08>>, <<\h1AFF0, \h1AFF3>>, <<\h1AFF5, \h1AFFB>>,
     <<\h1AFFD, \h1AFFE>>, <<\h1B000, \h1B122>>, <<\h1B150, \h1B152>>, <<\h1B164, \h1B167>>,
     <<\h1B170, \h1B2FB>>, <<\h1BC00, \h1BC6A>>, <<\h1BC70, \h1BC7C>>, <<\h1BC80, \h1BC88>>,
     <<\h1BC90, \h1BC99>>, <<\h1D2E0, \h1D2F3>>, <<\h1D360, \h1D378>>, <<\h1D400, \h1D454>>,
     <<\h1D456, \h1D49C>>, <<\h1D49E, \h1D49F>>, <<\h1D4A2, \h1D4A2>>, <<\h1D4A5, \h1D4A6>>,
     <<\h1D4A9, \h1D4AC>>, <<\h1D4AE, \h1D4B9>>, <<\h1D4BB, \h1D4BB>>, <<\h1D4BD, \h1D4C3>>,
     <<\h1D4C5, \h1D505>>, <<\h1D507, \h1D50A>>, <<\h1D50D, \h1D514>>, <<\h1D516, \h1D51C>>,
     <<\h1D51E, \h1D539>>, <<\h1D53B, \h1D53E>>, <<\h1D540, \h1D544>>, <<\h1D546, \h1D546>>,
     <<\h1D54A, \h1D550>>, <<\h1D552, \h1D6A5>>, <<\h1D6A8, \h1D6C0>>, <<\h1D6C2, \h1D6DA>>,
     <<\h1D6DC, \h1D6FA>>, <<\h1D6FC, \h1D714>>, <<\h1D716, \h1D734>>, <<\h1D736, \h1D74E>>,
     <<\h1D750, \h1D76E>>, <<\h1D770, \h1D788>>, <<\h1D78A, \h1D7A8>>, <<\h1D7AA, \h1D7C2>>,
     <<\h1D7C4, \h1D7CB>>, <<\h1D7CE, \h1D7FF>>, <<\h1DF00, \h1DF1E>>, <<\h1E100, \h1E12C>>,
     <<\h1E137, \h1E13D>>, <<\h1E140, \h1E149>>, <<\h1E14E, \h1E14E>>, <<\h1E290, \h1E2AD>>,
     <<\h1E2C0, \h1E2EB>>, <<\h1E2F0, \h1E2F9>>, <<\h1E7E0, \h1E7E6>>, <<\h1E7E8, \h1E7EB>>,
     <<\h1E7ED, \h1E7EE>>, <<\h1E7F0, \h1E7FE>>, <<\h1E800, \h1E8C4>>, <<\h1E8C7, \h1E8CF>>,
     <<\h1E900, \h1E943>>, <<\h1E94B, \h1E94B>>, <<\h1E950, \h1E959>>, <<\h1EC71, \h1ECAB>>,
     <<\h1ECAD, \h1ECAF>>, <<\h1ECB1, \h1ECB4>>, <<\h1ED01, \h1ED2D>>, <<\h1ED2F, \h1ED3D>>,
     <<\h1EE00, \h1EE03>>, <<\h1EE05, \h1EE1F>>, <<\h1EE21, \h1EE22>>, <<\h1EE24, \h1EE24>>,
     <<\h1EE27, \h1EE27>>, <<\h1EE29, \h1EE32>>, <<\h1EE34, \h1EE37>>, <<\h1EE39, \h1EE39>>,
     <<\h1EE3B, \h1EE3B>>, <<\h1EE42, \h1EE42>>, <<\h1EE47, \h1EE47>>, <<\h1EE49, \h1EE49>>,
     <<\h1EE4B, \h1EE4B>>, <<\h1EE4D, \h1EE4F>>, <<\h1EE51, \h1EE52>>, <<\h1EE54, \h1EE54>>,
     <<\h1EE57, \h1EE57>>, <<\h1EE59, \h1EE59>>, <<\h1EE5B, \h1EE5B>>, <<\h1EE5D, \h1EE5D>>,
     <<\h1EE5F, \h1EE5F>>, <<\h1EE61, \h1EE62>>, <<\h1EE64, \h1EE64>>, <<\h1EE67, \h1EE6A>>,
     <<\h1EE6C, \h1EE72>>, <<\h1EE74, \h1EE77>>, <<\h1EE79, \h1EE7C>>, <<\h1EE7E, \h1EE7E>>,
     <<\h1EE80, \h1EE89>>, <<\h1EE8B, \h1EE9B>>, <<\h1EEA1, \h1EEA3>>, <<\h1EEA5, \h1EEA9>>,
     <<\h1EEAB, \h1EEBB>>, <<\h1F100, \h1F10C>>, <<\h1FBF0, \h1FBF9>>, <<\h20000, \h2A6DF>>,
     <<\h2A700, \h2B738>>, <<\h2B740, \h2B81D>>, <<\h2B820, \h2CEA1>>, <<\h2CEB0, \h2EBE0>>,
     <<\h2F800, \h2FA1D>>, <<\h30000, \h3134A>>}

\* the word characters outside ASCII, the decimal digits among them
OtherWordChars == {Chr(n) : n \in UNION {r[1]..r[2] : r \in WordRanges}}

\* the characters whose NFKC form holds one of / ? # @ :
NfkcUnsafe ==
    {"U+2047", "U+2048", "U+2049", "U+2100", "U+2101", "U+2105", "U+2106",
     "U+2A74", "U+FE13", "U+FE16", "U+FE55", "U+FE56", "U+FE5F", "U+FE6B",
     "U+FF03", "U+FF0F", "U+FF1A", "U+FF1F", "U+FF20"}

\* _WHATWG_C0_CONTROL_OR_SPACE
C0ControlOrSpace ==
    {"U+0000", "U+0001", "U+0002", "U+0003", "U+0004", "U+0005", "U+0006",
     "U+0007", "U+0008", "\t", "\n", "U+000B", "\f", "\r", "U+000E",
     "U+000F", "U+0010", "U+0011", "U+0012", "U+0013", "U+0014", "U+0015",
     "U+0016", "U+0017", "U+0018", "U+0019", "U+001A", "U+001B", "U+001C",
     "U+001D", "U+001E", "U+001F", " "}

----------------------------------------------------------------------------
(* urllib.parse.urlparse, as far as is_valid_url reads it *)

UrlAlphabet == {"h", "1", ":", "/", "?", "["}

\* url[0].isascii() and url[0].isalpha()
IsAlpha(c) == c \in LowerChars \/ c \in UpperChars

\* string.ascii_letters + string.digits + "+-."
scheme_chars == LowerChars \cup UpperChars \cup AsciiDigits \cup {"+", "-", "."}

\* 1-based index of the first character of s at or after i that is in cs,
\* Len(s) + 1 if there is none
RECURSIVE FindAny(_, _, _)
FindAny(s, cs, i) ==
    IF i > Len(s) THEN Len(s) + 1
    ELSE IF s[i] \in cs THEN i
    ELSE FindAny(s, cs, i + 1)

\* _splitnetloc: netloc ends at the first of '/', '?', '#'
NetlocEnd(rest) == FindAny(rest, {"/", "?", "#"}, 3)

\* c in s
Contains(s, c) == FindFrom(s, c, 1) > 0

AllIn(s, cs) == \A k \in 1..Len(s) : s[k] \in cs

\* s.split(c)
Split(s, c) ==
    LET cuts == SelectSeq([k \in 1..Len(s) |-> k], LAMBDA k : s[k] = c)
    IN  [j \in 1..(Len(cuts) + 1) |->
            SubSeq(s, IF j = 1 THEN 1 ELSE cuts[j - 1] + 1,
                      IF j = Len(cuts) + 1 THEN Len(s) ELSE cuts[j] - 1)]

\* url.lstrip(_WHATWG_C0_CONTROL_OR_SPACE)
LStripUrl(u) ==
    SubSeq(u, FindAny(u, {c \in {u[k] : k \in 1..Len(u)} : c \notin C0ControlOrSpace}, 1),
           Len(u))

\* _UNSAFE_URL_BYTES_TO_REMOVE
RemoveUnsafe(u) == SelectSeq(u, LAMBDA c : c \notin {"\t", "\r", "\n"})

\* str.lower() of a scheme, whose letters are ASCII
Lower(s) ==
    [k \in 1..Len(s) |->
        IF s[k] \in UpperChars
        THEN Alphabet[CHOOSE j \in 1..26 : Capitals[j] = s[k]]
        ELSE s[k]]

\* int(s, 10) of a string of ASCII digits
RECURSIVE ParseInt(_)
ParseInt(s) ==
    IF s = <<>> THEN 0
    ELSE 10 * ParseInt(SubSeq(s, 1, Len(s) - 1))
         + (CHOOSE d \in 0..9 : DigitChars[d + 1] = s[Len(s)])

\* ipaddress: IPv4Address._parse_octet returns
OctetOk(o) ==
    /\ o # <<>>
    /\ AllIn(o, AsciiDigits)
    /\ Len(o) <= 3
    /\ o = <<"0">> \/ o[1] # "0"
    /\ ParseInt(o) <= 255

\* ipaddress: IPv4Address(a) returns
IsIPv4Address(a) ==
    /\ a # <<>>
    /\ ~Contains(a, "/")
    /\ \E octets \in {Split(a, ".")} :
          Len(octets) = 4 /\ \A k \in 1..4 : OctetOk(octets[k])

\* ipaddress: IPv6Address._parse_hextet returns
HextetOk(h) == h # <<>> /\ AllIn(h, HexChars) /\ Len(h) <= 4

\* lines of _ip_int_from_string after the IPv4 suffix is dealt with: at most
\* nine parts, at most one '::', the right number of parts, every part a hextet
HextetsOk(parts) ==
    LET n     == Len(parts)
        skips == {i \in 2..(n - 1) : parts[i] = <<>>}
    IN  /\ n <= 9
        /\ Cardinality(skips) <= 1
        /\ IF skips # {}
           THEN \E skip \in skips :
                  LET hi == IF parts[1] = <<>> THEN skip - 2 ELSE skip - 1
                      lo == IF parts[n] = <<>> THEN n - skip - 1 ELSE n - skip
                  IN  /\ parts[1] = <<>> => hi = 0
                      /\ parts[n] = <<>> => lo = 0
                      /\ 8 - (hi + lo) >= 1
                      /\ \A k \in 1..hi : HextetOk(parts[k])
                      /\ \A k \in (n - lo + 1)..n : HextetOk(parts[k])
           ELSE /\ n = 8
                /\ \A k \in 1..n : HextetOk(parts[k])

\* ipaddress: IPv6Address._ip_int_from_string(s) returns.  An IPv4 suffix is
\* replaced by its two hextets, which are valid whatever the address.
IPv6IntOk(s) ==
    /\ s # <<>>
    /\ \E parts \in {Split(s, ":")} :
          /\ Len(parts) >= 3
          /\ IF Contains(parts[Len(parts)], ".")
             THEN /\ IsIPv4Address(parts[Len(parts)])
                  /\ \E converted \in {SubSeq(parts, 1, Len(parts) - 1)
                                         \o <<<<"0">>, <<"0">>>>} :
                        HextetsOk(converted)
             ELSE HextetsOk(parts)

\* ipaddress: IPv6Address(a) returns; _split_scope_id cuts a at the first '%'
IsIPv6Address(a) ==
    /\ ~Contains(a, "/")
    /\ \E i \in {FindFrom(a, "%", 1)} :
          IF i = 0 THEN IPv6IntOk(a)
          ELSE /\ i < Len(a)
               /\ ~Contains(SubSeq(a, i + 1, Len(a)), "%")
               /\ \E addr \in {SubSeq(a, 1, i - 1)} : IPv6IntOk(addr)

\* _check_bracketed_host(hostname) returns: an IPvFuture address
\* (\Av[a-fA-F0-9]+\..+\Z), or an address of ipaddress that is not an IPv4
\* address
BracketedHostOk(hostname) ==
    IF hostname # <<>> /\ hostname[1] = "v"
    THEN \E dot \in {FindAny(hostname, {c \in {hostname[k] : k \in 1..Len(hostname)} :
                                            c \notin HexChars}, 2)} :
            /\ dot > 2
            /\ dot < Len(hostname)
            /\ hostname[dot] = "."
    ELSE ~IsIPv4Address(hostname) /\ IsIPv6Address(hostname)

\* netloc.partition('[')[2].partition(']')[0]
BracketedHost(netloc) ==
    LET open == FindFrom(netloc, "[", 1)
        rest == SubSeq(netloc, open + 1, Len(netloc))
        shut == FindFrom(rest, "]", 1)
    IN  IF shut = 0 THEN rest ELSE SubSeq(rest, 1, shut - 1)

\* urlsplit raises ValueError for this netloc: one bracket without the
\* other, a bracketed host that is no address, or (_checknetloc) a character
\* whose NFKC form holds a delimiter
NetlocRaises(netloc) ==
    LET hasOpen  == Contains(netloc, "[")
        hasClose == Contains(netloc, "]")
    IN  \/ hasOpen # hasClose
        \/ /\ hasOpen /\ hasClose
           /\ \E hostname \in {BracketedHost(netloc)} : ~BracketedHostOk(hostname)
        \/ \E k \in 1..Len(netloc) : netloc[k] \in NfkcUnsafe

\* urlsplit on a url that has been stripped of its leading blanks and controls
\* and of its tabs and newlines
SplitUrl(u) ==
    LET i       == FindFrom(u, ":", 1)
        hasSch  == /\ i > 1
                   /\ IsAlpha(u[1])
                   /\ \A k \in 1..(i - 1) : u[k] \in scheme_chars
        scheme  == IF hasSch THEN Lower(SubSeq(u, 1, i - 1)) ELSE <<>>
        rest    == IF hasSch THEN SubSeq(u, i + 1, Len(u)) ELSE u
        hasNet  == Len(rest) >= 2 /\ rest[1] = "/" /\ rest[2] = "/"
        netloc  == IF hasNet THEN SubSeq(rest, 3, NetlocEnd(rest) - 1) ELSE <<>>
    IN  IF hasNet /\ \E n \in {netloc} : NetlocRaises(n)
        THEN [raised |-> TRUE, scheme |-> <<>>, netloc |-> <<>>]
        ELSE [raised |-> FALSE, scheme |-> scheme, netloc |-> netloc]

urlparse(url0) ==
    CHOOSE result \in {SplitUrl(u) : u \in {RemoveUnsafe(LStripUrl(url0))}} : TRUE

\* faulty variant: any() for all()
is_valid_url_any(u) ==
    LET result == urlparse(u)
    IN  IF result.raised THEN FALSE
        ELSE result.scheme # <<>> \/ result.netloc # <<>>

\* lines 28-32
is_valid_url(u) ==
    LET result == urlparse(u)
    IN  IF result.raised THEN FALSE
        ELSE result.scheme # <<>> /\ result.netloc # <<>>

----------------------------------------------------------------------------
(* Outcomes of the libraries the strategies call.  Each strategy is a       *)
(* function of what its download and parse calls do: return a value, return *)
(* None, or raise an exception whose str() is exc.                          *)

ExcMsgs == {"timed out", "404 Client Error"}

TextLens == {0, 50, 80, 199, 200, 201, 300}

Texts == {Rep(n) : n \in TextLens}

TrafEnvs == [fetch : {"none", "raise", "ok"}, extract : {"none", "raise", "ok"},
             meta : {"none", "raise", "ok"}, text : Texts, exc : ExcMsgs]

NewsEnvs == [stage : {"download", "parse", "nlp", "ok"}, text : Texts, exc : ExcMsgs]

BsTexts == {Rep(n) : n \in {0, 80, 100, 201}}

BsEnvs == [get : {"raise", "ok"}, http : {"error", "ok"}, ptext : BsTexts,
           alltext : BsTexts, exc : ExcMsgs]

\* a call that ends by raising instead of returning a dict
Raised(exc) == [raised |-> exc]

IsRaised(r) == "raised" \in DOMAIN r

ErrorResult(message, method) ==
    [status |-> "error", message |-> message, method |-> method]

----------------------------------------------------------------------------
(* The three strategies *)

\* faulty variant: an exception of the download leaves the strategy
extract_with_trafilatura_uncaught(env) ==
    IF env.fetch = "raise" THEN Raised(env.exc)
    ELSE IF \/ env.fetch = "ok" /\ env.extract = "raise"
            \/ env.fetch = "ok" /\ env.extract = "ok" /\ env.meta = "raise"
    THEN ErrorResult("Error extracting with trafilatura: " \o env.exc, "trafilatura")
    ELSE IF env.fetch = "none"
    THEN ErrorResult("Failed to download content", "trafilatura")
    ELSE IF env.extract = "none"
    THEN ErrorResult("Failed to extract content", "trafilatura")
    ELSE IF env.meta = "ok"
    THEN [status |-> "success", title |-> <<"T">>, text |-> env.text,
          method |-> "trafilatura"]
    ELSE [status |-> "success", text |-> env.text, method |-> "trafilatura"]

\* lines 121-156
extract_with_trafilatura(env) ==
    IF \/ env.fetch = "raise"
       \/ env.fetch = "ok" /\ env.extract = "raise"
       \/ env.fetch = "ok" /\ env.extract = "ok" /\ env.meta = "raise"
    THEN ErrorResult("Error extracting with trafilatura: " \o env.exc, "trafilatura")
    ELSE IF env.fetch = "none"
    THEN ErrorResult("Failed to download content", "trafilatura")
    ELSE IF env.extract = "none"
    THEN ErrorResult("Failed to extract content", "trafilatura")
    ELSE IF env.meta = "ok"
    THEN [status |-> "success", title |-> <<"T">>, text |-> env.text,
          method |-> "trafilatura"]
    ELSE [status |-> "success", text |-> env.text, method |-> "trafilatura"]

\* lines 86-108
extract_with_newspaper(env) ==
    IF env.stage # "ok"
    THEN ErrorResult("Error extracting with newspaper3k: " \o env.exc, "newspaper3k")
    ELSE [status |-> "success", title |-> <<"T">>, text |-> env.text,
          method |-> "newspaper3k"]

BsShortFloor == 100

\* faulty variant: requests.get outside the try block
extract_with_beautifulsoup_unguarded(env) ==
    IF env.get = "raise" THEN Raised(env.exc)
    ELSE IF env.http = "error"
    THEN ErrorResult("Error extracting with BeautifulSoup: " \o env.exc, "beautifulsoup")
    ELSE LET text == IF Len(env.ptext) < BsShortFloor THEN env.alltext ELSE env.ptext
         IN  [status |-> "success", text |-> text, method |-> "beautifulsoup"]

\* lines 173-208
extract_with_beautifulsoup(env) ==
    IF env.get = "raise" \/ env.http = "error"
    THEN ErrorResult("Error extracting with BeautifulSoup: " \o env.exc, "beautifulsoup")
    ELSE LET text == IF Len(env.ptext) < BsShortFloor THEN env.alltext ELSE env.ptext
         IN  [status |-> "success", text |-> text, method |-> "beautifulsoup"]

----------------------------------------------------------------------------
(* extract_content *)

QualityFloor == 200

NotCalled == [status |-> "not_called"]

InvalidUrlError == [status |-> "error", message |-> "Invalid URL format"]

UniformError ==
    [status |-> "error",
     message |-> "Failed to extract content from the URL using all available methods"]

\* faulty variants of the quality gate: >= for >, never met, title required
MeetsGateAtLeast(result) ==
    /\ result["status"] = "success"
    /\ Truthy(result, "text")
    /\ Len(result["text"]) >= QualityFloor

MeetsGateNever(result) == FALSE

MeetsGateNeedsTitle(result) ==
    /\ result["status"] = "success"
    /\ Truthy(result, "title")
    /\ Truthy(result, "text")
    /\ Len(result["text"]) > QualityFloor

\* lines 229 and 234: the quality gate of the first two strategies
MeetsGate(result) ==
    /\ result["status"] = "success"
    /\ Truthy(result, "text")
    /\ Len(result["text"]) > QualityFloor

\* faulty variant: the scraper held to the 200-character floor too
BsAcceptedLongText(result) ==
    /\ result["status"] = "success"
    /\ Truthy(result, "text")
    /\ Len(result["text"]) > QualityFloor

\* faulty variant: the scraper's success accepted whatever its text
BsAcceptedAnyText(result) == result["status"] = "success"

\* line 239: the scraper's result is accepted with any non-empty text
BsAccepted(result) ==
    /\ result["status"] = "success"
    /\ Truthy(result, "text")

\* faulty variant: the results scanned from the last to the first
FallbackLastUsable(results) ==
    LET ok == {i \in 1..Len(results) :
                 results[i]["status"] = "success" /\ Truthy(results[i], "text")}
    IN  IF ok = {} THEN UniformError
        ELSE results[CHOOSE i \in ok : \A j \in ok : i >= j]

\* faulty variant: the last strategy's failure surfaced as the error
FallbackLastError(results) ==
    LET ok == {i \in 1..Len(results) :
                 results[i]["status"] = "success" /\ Truthy(results[i], "text")}
    IN  IF ok = {} THEN results[Len(results)]
        ELSE results[CHOOSE i \in ok : \A j \in ok : i <= j]

\* faulty variant: the result the loop picks is marked as partial
FallbackMarked(results) ==
    LET ok == {i \in 1..Len(results) :
                 results[i]["status"] = "success" /\ Truthy(results[i], "text")}
        i  == CHOOSE i \in ok : \A j \in ok : i <= j
    IN  IF ok = {} THEN UniformError
        ELSE [k \in DOMAIN results[i] \cup {"partial"} |->
                 IF k = "partial" THEN "true" ELSE results[i][k]]

\* lines 243-251: the first usable result in priority order, else the error
Fallback(results) ==
    LET ok == {i \in 1..Len(results) :
                 results[i]["status"] = "success" /\ Truthy(results[i], "text")}
    IN  IF ok = {} THEN UniformError
        ELSE results[CHOOSE i \in ok : \A j \in ok : i <= j]

\* urls with a leading blank, a tab, a capital in the scheme, a bracketed host
Urls ==
    SeqsUpTo(UrlAlphabet, MaxUrlLen) \cup
    {<<" ", "h", ":", "/", "/", "1">>, <<"h", "\t", ":", "/", "/", "1">>,
     <<"H", ":", "/", "/", "1">>, <<"h", ":", "/", "/", "[", "h", "]">>,
     <<"h", ":", "/", "/", "[", ":", ":", "1", "]">>,
     <<"h", ":", "/", "/", "[", "1", ".", "1", ".", "1", ".", "1", "]">>,
     <<"h", ":", "/", "/", "[", "v", "1", ".", "h", "]">>,
     <<"h", ":", "/", "/", "h", "U+2100">>}

InitWeb ==
    /\ url \in Urls
    /\ pc = "start"
    /\ calls = <<>>
    /\ trafilatura_result = NotCalled
    /\ newspaper_result = NotCalled
    /\ bs_result = NotCalled
    /\ ret = NotCalled

\* lines 221-225
RejectUrl ==
    /\ pc = "start"
    /\ ~is_valid_url(url)
    /\ ret' = InvalidUrlError
    /\ pc' = "done"
    /\ UNCHANGED <<url, calls, trafilatura_result, newspaper_result, bs_result>>

\* lines 221, 228-230
TryTrafilatura ==
    /\ pc = "start"
    /\ is_valid_url(url)
    /\ \E env \in TrafEnvs :
         LET r == extract_with_trafilatura(env)
         IN  /\ calls' = Append(calls, "trafilatura")
             /\ IF IsRaised(r)
                THEN pc' = "raised" /\ UNCHANGED <<trafilatura_result, ret>>
                ELSE /\ trafilatura_result' = r
                     /\ IF MeetsGate(r)
                        THEN ret' = r /\ pc' = "done"
                        ELSE ret' = ret /\ pc' = "newspaper"
    /\ UNCHANGED <<url, newspaper_result, bs_result>>

\* lines 233-235
TryNewspaper ==
    /\ pc = "newspaper"
    /\ \E env \in NewsEnvs :
         LET r == extract_with_newspaper(env)
         IN  /\ calls' = Append(calls, "newspaper3k")
             /\ IF IsRaised(r)
                THEN pc' = "raised" /\ UNCHANGED <<newspaper_result, ret>>
                ELSE /\ newspaper_result' = r
                     /\ IF MeetsGate(r)
                        THEN ret' = r /\ pc' = "done"
                        ELSE ret' = ret /\ pc' = "beautifulsoup"
    /\ UNCHANGED <<url, trafilatura_result, bs_result>>

\* lines 238-251
TryBeautifulSoup ==
    /\ pc = "beautifulsoup"
    /\ \E env \in BsEnvs :
         LET r == extract_with_beautifulsoup(env)
         IN  /\ calls' = Append(calls, "beautifulsoup")
             /\ IF IsRaised(r)
                THEN pc' = "raised" /\ UNCHANGED <<bs_result, ret>>
                ELSE /\ bs_result' = r
                     /\ pc' = "done"
                     /\ ret' = IF BsAccepted(r) THEN r
                               ELSE Fallback(<<trafilatura_result, newspaper_result, r>>)
    /\ UNCHANGED <<url, trafilatura_result, newspaper_result>>

NextWeb ==
    \/ RejectUrl /\ UNCHANGED <<textVars, quoteVars, conVars, apiVars>>
    \/ TryTrafilatura /\ UNCHANGED <<textVars, quoteVars, conVars, apiVars>>
    \/ TryNewspaper /\ UNCHANGED <<textVars, quoteVars, conVars, apiVars>>
    \/ TryBeautifulSoup /\ UNCHANGED <<textVars, quoteVars, conVars, apiVars>>

----------------------------------------------------------------------------
(* SentimentAnalyzer.clean_transcript *)

\* \d of a str pattern: the decimal digits of Unicode
IsDigit(c) == c \in AsciiDigits \/ c \in OtherDigits

\* \s of a str pattern and the whitespace of str.strip
IsSpace(c) == c \in {" ", "\n", "\t"} \/ c \in OtherSpaces

\* number of consecutive digits of s starting at position i
RECURSIVE DigitRun(_, _)
DigitRun(s, i) ==
    IF i > Len(s) \/ ~IsDigit(s[i]) THEN 0
    ELSE 1 + DigitRun(s, i + 1)

\* number of consecutive whitespace characters of s starting at position i
RECURSIVE SpaceRun(_, _)
SpaceRun(s, i) ==
    IF i > Len(s) \/ ~IsSpace(s[i]) THEN 0
    ELSE 1 + SpaceRun(s, i + 1)

\* faulty variant: a marker of exactly two digits, a colon and two digits
MatchTimestampFixed(s, i) ==
    IF /\ i + 6 <= Len(s)
       /\ s[i] = "[" /\ IsDigit(s[i + 1]) /\ IsDigit(s[i + 2]) /\ s[i + 3] = ":"
       /\ IsDigit(s[i + 4]) /\ IsDigit(s[i + 5]) /\ s[i + 6] = "]"
    THEN 7 ELSE 0

\* length of the match of \[\d+:\d+\] at position i of s, 0 if there is none
MatchTimestamp(s, i) ==
    IF i > Len(s) \/ s[i] # "[" THEN 0
    ELSE LET a == DigitRun(s, i + 1)
             c == i + 1 + a
         IN  IF a = 0 \/ c > Len(s) \/ s[c] # ":" THEN 0
             ELSE LET b == DigitRun(s, c + 1)
                      e == c + 1 + b
                  IN  IF b = 0 \/ e > Len(s) \/ s[e] # "]" THEN 0
                      ELSE e - i + 1

\* re.sub(r'\[\d+:\d+\]', '', s): one left-to-right pass from position i
RECURSIVE RemoveTimestamps(_, _)
RemoveTimestamps(s, i) ==
    IF i > Len(s) THEN <<>>
    ELSE LET m == MatchTimestamp(s, i)
         IN  IF m > 0 THEN RemoveTimestamps(s, i + m)
             ELSE <<s[i]>> \o RemoveTimestamps(s, i + 1)

\* re.sub(r'\s+', ' ', s) from position i
RECURSIVE CollapseWhitespace(_, _)
CollapseWhitespace(s, i) ==
    IF i > Len(s) THEN <<>>
    ELSE LET m == SpaceRun(s, i)
         IN  IF m > 0 THEN <<" ">> \o CollapseWhitespace(s, i + m)
             ELSE <<s[i]>> \o CollapseWhitespace(s, i + 1)

\* str.strip()
RECURSIVE Strip(_)
Strip(s) ==
    IF s = <<>> THEN s
    ELSE IF IsSpace(s[1]) THEN Strip(Tail(s))
    ELSE IF IsSpace(s[Len(s)]) THEN Strip(SubSeq(s, 1, Len(s) - 1))
    ELSE s

\* faulty variant: the markers are left in
clean_transcript_keep_markers(t) == Strip(CollapseWhitespace(t, 1))

\* faulty variant: the trailing .strip() left out
clean_transcript_no_strip(t) == CollapseWhitespace(RemoveTimestamps(t, 1), 1)

\* lines 24-27
clean_transcript(t) == Strip(CollapseWhitespace(RemoveTimestamps(t, 1), 1))

----------------------------------------------------------------------------
(* TranscriptService.format_transcript *)

\* str(n) for n >= 0
RECURSIVE Decimal(_)
Decimal(n) ==
    IF n < 10 THEN <<DigitChars[n + 1]>>
    ELSE Decimal(n \div 10) \o <<DigitChars[(n % 10) + 1]>>

\* f"{n:02d}"
Pad2(n) == IF n < 10 THEN <<"0">> \o Decimal(n) ELSE Decimal(n)

\* dict.get(key, default)
Get(d, key, default) == IF key \in DOMAIN d THEN d[key] ELSE default

\* faulty variant: the numbers written without the 02d padding
timestamp_unpadded(start_time) ==
    LET minutes == start_time \div 60
        seconds == start_time % 60
    IN  <<"[">> \o Decimal(minutes) \o <<":">> \o Decimal(seconds) \o <<"]">>

\* lines 113-115
timestamp(start_time) ==
    LET minutes == start_time \div 60
        seconds == start_time % 60
    IN  <<"[">> \o Pad2(minutes) \o <<":">> \o Pad2(seconds) \o <<"]">>

\* lines 106-119
RECURSIVE format_transcript(_)
format_transcript(transcript_data) ==
    IF transcript_data = <<>> THEN <<>>
    ELSE LET item == Head(transcript_data)
             text == Get(item, "text", <<>>)
             start_time == Get(item, "start", 0)
         IN  timestamp(start_time) \o <<" ">> \o text \o <<"\n">>
             \o format_transcript(Tail(transcript_data))

----------------------------------------------------------------------------
(* The text pipeline: a raw transcript is cleaned, and cleaned again; a list *)
(* of segments is formatted and the formatted transcript is cleaned.         *)

RECURSIVE Flatten(_)
Flatten(ss) == IF ss = <<>> THEN <<>> ELSE Head(ss) \o Flatten(Tail(ss))

Pieces ==
    { <<"[">>, <<":">>, <<" ">>, <<"\n">>, <<"a">>,
      <<"[", "0">>, <<"0", "]">>, <<"[", "0", "0", ":", "0", "0", "]">> }

\* transcripts with other whitespace and other digits than the ASCII ones
RawInputs ==
    {Flatten(ps) : ps \in SeqsUpTo(Pieces, MaxPieces)} \cup
    {<<"a", "\r", "b">>, <<"\f", "a", " ", "\r", " ", "b", "U+00A0">>,
     <<"[", "U+0661", ":", "U+0662", "]", " ", "a">>,
     <<"[", "0", ":", "0", "]", "\r", "[", "1", ":", "1", "]">>}

SegTexts ==
    { <<"a">>, <<"a", " ", "b">>, <<"a", "\n", "b">>, <<"a", " ", " ", "b">>,
      <<"a", "\r", "b">>,
      <<" ", "a">>, <<"0", ":", "0", "]">>, <<"[", "a">>, <<>> }

Starts == {0, 65, 6000}

Segs == [text : SegTexts, start : Starts] \cup [text : {<<"a">>}] \cup [start : {5}]

SegLists == SeqsUpTo(Segs, MaxSegs)

ConIdle ==
    /\ reqs = <<>>
    /\ overlapped = FALSE

\* Python's None where a str is expected
None == <<"None">>

NoResult == [status |-> "not_called"]

ApiIdle ==
    /\ apc = "idle"
    /\ endpoint = "none"
    /\ api_url = <<>>
    /\ language = None
    /\ format_text = TRUE
    /\ library = [list |-> "ok"]
    /\ video_id = None
    /\ api_result = NoResult
    /\ api_calls = <<>>
    /\ response = NoResult

WebIdle ==
    /\ url = <<>>
    /\ pc = "idle"
    /\ calls = <<>>
    /\ trafilatura_result = NotCalled
    /\ newspaper_result = NotCalled
    /\ bs_result = NotCalled
    /\ ret = NotCalled

TextIdle ==
    /\ transcript = <<>>
    /\ segments = <<>>
    /\ tpc = "idle"
    /\ cleaned = <<>>
    /\ recleaned = <<>>

QuoteIdle ==
    /\ qpc = "idle"
    /\ split_text = <<>>
    /\ sentences = <<>>
    /\ spans = <<>>
    /\ top_n = 0
    /\ sentiment_type = "positive"
    /\ analyzed_sentences = <<>>
    /\ filtered_sentences = <<>>
    /\ top_quotes = <<>>
    /\ quote_text = <<>>
    /\ quote = <<>>
    /\ sentiment_results = NoResult

InitText ==
    /\ WebIdle
    /\ QuoteIdle
    /\ ConIdle
    /\ ApiIdle
    /\ cleaned = <<>>
    /\ recleaned = <<>>
    /\ \/ tpc = "raw" /\ segments = <<>> /\ transcript \in RawInputs
       \/ tpc = "segments" /\ segments \in SegLists /\ transcript = <<>>

\* TranscriptService.format_transcript(transcript_data)
Format ==
    /\ tpc = "segments"
    /\ transcript' = format_transcript(segments)
    /\ tpc' = "formatted"
    /\ UNCHANGED <<segments, cleaned, recleaned>>

\* cleaned_text = clean_transcript(transcript)
Clean ==
    /\ tpc \in {"raw", "formatted"}
    /\ cleaned' = clean_transcript(transcript)
    /\ tpc' = IF tpc = "raw" THEN "cleaned" ELSE "normalized"
    /\ UNCHANGED <<transcript, segments, recleaned>>

\* clean_transcript applied to its own output
CleanAgain ==
    /\ tpc \in {"cleaned", "normalized"}
    /\ recleaned' = clean_transcript(cleaned)
    /\ tpc' = "recleaned"
    /\ UNCHANGED <<transcript, segments, cleaned>>

NextText ==
    \/ Format /\ UNCHANGED <<webVars, quoteVars, conVars, apiVars>>
    \/ Clean /\ UNCHANGED <<webVars, quoteVars, conVars, apiVars>>
    \/ CleanAgain /\ UNCHANGED <<webVars, quoteVars, conVars, apiVars>>

SpecText == InitText /\ [][NextText]_vars

----------------------------------------------------------------------------
(* The web extraction request *)

Init == InitWeb /\ TextIdle /\ QuoteIdle /\ ConIdle /\ ApiIdle

Next == NextWeb

Spec == Init /\ [][Next]_vars

\* a call that has started runs on: every step that can be taken is taken
SpecLive == Spec /\ WF_vars(Next)

----------------------------------------------------------------------------
(* SentimentAnalyzer.split_into_sentences.  A piece of the text is kept as  *)
(* the span [lo, hi] of the positions it was taken from (hi = lo - 1 for an *)
(* empty piece); the strings the code returns are the SubSeq of the spans.  *)

\* \w of a str pattern: str.isalnum() or '_'
IsWord(c) ==
    c \in LowerChars \/ c \in UpperChars \/ c \in AsciiDigits \/ c = "_" \/ c \in OtherWordChars

SubSplitOver == 100

MinSentenceLen == 20

MaxSentenceLen == 200

Span(lo, hi) == [lo |-> lo, hi |-> hi]

SpanLen(sp) == sp.hi - sp.lo + 1

\* the pieces re.split leaves between the cuts; a cut removes positions p..q
\* (q = p - 1 for an empty match before position p)
RECURSIVE SpansBetween(_, _, _)
SpansBetween(from, cuts, to) ==
    IF cuts = {} THEN <<Span(from, to)>>
    ELSE LET c == CHOOSE c \in cuts : \A d \in cuts : c.p <= d.p
         IN  <<Span(from, c.p - 1)>> \o SpansBetween(c.q + 1, cuts \ {c}, to)

\* str.strip() of the piece sp of s
RECURSIVE StripSpan(_, _)
StripSpan(s, sp) ==
    IF sp.lo > sp.hi THEN Span(sp.lo, sp.lo - 1)
    ELSE IF IsSpace(s[sp.lo]) THEN StripSpan(s, Span(sp.lo + 1, sp.hi))
    ELSE IF IsSpace(s[sp.hi]) THEN StripSpan(s, Span(sp.lo, sp.hi - 1))
    ELSE sp

\* line 34: (?<!\w\.\w.)(?<![A-Z][a-z]\.)(?<=\.|\?|\!)\s matches s[i]
CoarseCut(s, i) ==
    /\ IsSpace(s[i])
    /\ i >= 2 /\ s[i - 1] \in {".", "?", "!"}
    /\ ~(i >= 5 /\ IsWord(s[i - 4]) /\ s[i - 3] = "." /\ IsWord(s[i - 2])
           /\ s[i - 1] # "\n")
    /\ ~(i >= 4 /\ s[i - 3] \in UpperChars /\ s[i - 2] \in LowerChars
           /\ s[i - 1] = ".")

\* line 34: raw_splits
raw_splits(s) ==
    SpansBetween(1, {[p |-> i, q |-> i] : i \in {j \in 1..Len(s) : CoarseCut(s, j)}},
                 Len(s))

\* r[p - Len(w) - 2 .. p - 1] is whitespace, the word w, whitespace
AfterWord(r, p, w) ==
    LET n == Len(w)
    IN  /\ p - n - 2 >= 1
        /\ IsSpace(r[p - n - 2])
        /\ SubSeq(r, p - n - 1, p - 2) = w
        /\ IsSpace(r[p - 1])

Conjunctions == {<<"a", "n", "d">>, <<"b", "u", "t">>, <<"o", "r">>, <<"s", "o">>}

\* faulty variant: no split after and, but, or, so
SubCuts_commas_only(r) ==
    {[p |-> i, q |-> i + SpaceRun(r, i) - 1] :
        i \in {j \in 2..Len(r) : IsSpace(r[j]) /\ r[j - 1] \in {",", ";"}}}

\* line 39: the matches of
\* (?<=\,|\;)\s+|(?<=\sand\s)|(?<=\sbut\s)|(?<=\sor\s)|(?<=\sso\s) in r
SubCuts(r) ==
    {[p |-> i, q |-> i + SpaceRun(r, i) - 1] :
        i \in {j \in 2..Len(r) : IsSpace(r[j]) /\ r[j - 1] \in {",", ";"}}}
    \cup
    {[p |-> i, q |-> i - 1] :
        i \in {j \in 2..(Len(r) + 1) : \E w \in Conjunctions : AfterWord(r, j, w)}}

\* line 39: sub_sentences, as spans of s, for the piece raw of s
sub_sentences(s, raw) ==
    LET r     == SubSeq(s, raw.lo, raw.hi)
        parts == SpansBetween(1, SubCuts(r), Len(r))
    IN  [k \in 1..Len(parts) |->
            Span(parts[k].lo + raw.lo - 1, parts[k].hi + raw.lo - 1)]

\* faulty variant: the pieces of a raw split are put in front of the list
RECURSIVE CollectSentences_in_front(_, _, _)
CollectSentences_in_front(s, raws, k) ==
    IF k > Len(raws) THEN <<>>
    ELSE LET raw == raws[k]
             own == IF SpanLen(StripSpan(s, raw)) > SubSplitOver
                    THEN LET subs == sub_sentences(s, raw)
                             strp == [j \in 1..Len(subs) |-> StripSpan(s, subs[j])]
                         IN  SelectSeq(strp, LAMBDA sp : SpanLen(sp) > MinSentenceLen)
                    ELSE <<StripSpan(s, raw)>>
         IN  CollectSentences_in_front(s, raws, k + 1) \o own

\* lines 37-42: the loop over raw_splits, from piece k on
RECURSIVE CollectSentences(_, _, _)
CollectSentences(s, raws, k) ==
    IF k > Len(raws) THEN <<>>
    ELSE LET raw == raws[k]
             own == IF SpanLen(StripSpan(s, raw)) > SubSplitOver
                    THEN LET subs == sub_sentences(s, raw)
                             strp == [j \in 1..Len(subs) |-> StripSpan(s, subs[j])]
                         IN  SelectSeq(strp, LAMBDA sp : SpanLen(sp) > MinSentenceLen)
                    ELSE <<StripSpan(s, raw)>>
         IN  own \o CollectSentences(s, raws, k + 1)

\* faulty variant: the length filter with >= and <=
split_spans_inclusive(s) ==
    SelectSeq(CollectSentences(s, raw_splits(s), 1),
              LAMBDA sp : SpanLen(sp) >= MinSentenceLen /\ SpanLen(sp) <= MaxSentenceLen)

\* lines 29-45, as spans of s
split_spans(s) ==
    SelectSeq(CollectSentences(s, raw_splits(s), 1),
              LAMBDA sp : SpanLen(sp) > MinSentenceLen /\ SpanLen(sp) < MaxSentenceLen)

\* lines 29-45
split_into_sentences(s) ==
    LET sps == split_spans(s)
    IN  [k \in 1..Len(sps) |-> SubSeq(s, sps[k].lo, sps[k].hi)]

----------------------------------------------------------------------------
(* SentimentAnalyzer.get_top_quotes.  The compound score of a sentence is   *)
(* the library's (SentimentIntensityAnalyzer.polarity_scores): a choice of  *)
(* the environment, in hundredths, the same for equal sentences.            *)

Scores == {-90, -21, -20, 20, 21, 90}

\* 0.2, in hundredths
CompoundFloor == 20

QuoteLimit == 200

QuoteKept == 197

\* the element x goes before the element y of a sorted list
GoesBefore(x, y, reverse) ==
    IF reverse THEN x.compound > y.compound ELSE x.compound < y.compound

\* x inserted after the elements it does not go before
InsertSorted(sorted_, x, reverse) ==
    LET before == {i \in 1..Len(sorted_) : GoesBefore(x, sorted_[i], reverse)}
        at     == IF before = {} THEN Len(sorted_) + 1
                  ELSE CHOOSE i \in before : \A j \in before : i <= j
    IN  SubSeq(sorted_, 1, at - 1) \o <<x>> \o SubSeq(sorted_, at, Len(sorted_))

RECURSIVE SortedUpTo(_, _, _)
SortedUpTo(xs, k, reverse) ==
    IF k = 0 THEN <<>>
    ELSE InsertSorted(SortedUpTo(xs, k - 1, reverse), xs[k], reverse)

Reversed(xs) == [k \in 1..Len(xs) |-> xs[Len(xs) + 1 - k]]

\* faulty variant: a descending sort made of an ascending sort, reversed
sorted_flipped(xs, reverse) ==
    IF reverse THEN Reversed(SortedUpTo(xs, Len(xs), FALSE))
    ELSE SortedUpTo(xs, Len(xs), FALSE)

\* sorted(xs, key=lambda x: x['compound'], reverse=reverse): stable
sorted(xs, reverse) == SortedUpTo(xs, Len(xs), reverse)

\* faulty variant: one item more than asked for
Slice_one_more(xs, n) == SubSeq(xs, 1, IF n + 1 < Len(xs) THEN n + 1 ELSE Len(xs))

\* xs[:n]
Slice(xs, n) ==
    IF n >= 0 THEN SubSeq(xs, 1, IF n < Len(xs) THEN n ELSE Len(xs))
    ELSE SubSeq(xs, 1, Len(xs) + n)

\* the number of blanks in a row that end at position i of s
BlanksUpTo(s, i) ==
    IF s[i] # " " THEN 0
    ELSE CHOOSE n \in 1..i :
            /\ \A k \in (i - n + 1)..i : s[k] = " "
            /\ n = i \/ s[i - n] # " "

\* str.replace("  ", " "): the pairs of blanks are matched from the left and
\* do not overlap, so every second blank of a run of blanks goes
ReplaceDoubleSpace(s) ==
    LET idx == [i \in 1..Len(s) |-> i]
        sel == SelectSeq(idx, LAMBDA i : BlanksUpTo(s, i) % 2 = 0 => s[i] # " ")
    IN  [k \in 1..Len(sel) |-> s[sel[k]]]

\* faulty variant: the quotation marks are left out
format_quote_bare(t) ==
    LET cut == IF Len(t) > QuoteLimit
               THEN SubSeq(t, 1, QuoteKept) \o <<".", ".", ".">> ELSE t
    IN  Strip(ReplaceDoubleSpace(cut))

\* lines 98-107
format_quote(t) ==
    LET cut == IF Len(t) > QuoteLimit
               THEN SubSeq(t, 1, QuoteKept) \o <<".", ".", ".">> ELSE t
    IN  <<"\"">> \o Strip(ReplaceDoubleSpace(cut)) \o <<"\"">>

\* faulty variant: the negative filter lets every score under the floor through
filter_loose(xs, type) ==
    IF type = "positive"
    THEN SelectSeq(xs, LAMBDA x : x.compound > CompoundFloor)
    ELSE SelectSeq(xs, LAMBDA x : x.compound < CompoundFloor)

\* faulty variant: an unrecognized sentiment_type selects nothing
filter_strict(xs, type) ==
    IF type = "positive"
    THEN SelectSeq(xs, LAMBDA x : x.compound > CompoundFloor)
    ELSE IF type = "negative"
         THEN SelectSeq(xs, LAMBDA x : x.compound < -CompoundFloor)
         ELSE <<>>

\* lines 82 and 88: the list comprehensions under sorted
filter(xs, type) ==
    IF type = "positive"
    THEN SelectSeq(xs, LAMBDA x : x.compound > CompoundFloor)
    ELSE SelectSeq(xs, LAMBDA x : x.compound < -CompoundFloor)

----------------------------------------------------------------------------
(* The calls of the sentiment analyzer: split_into_sentences on a text, and *)
(* get_top_quotes on a transcript.                                          *)

Run(c, n) == [k \in 1..n |-> c]

SplitParts ==
    {Rep(19), Rep(20), Rep(79), Rep(198),
     Run("c", 79) \o <<",", " ">>, Run("z", 20) \o <<".", " ">>,
     <<".", " ">>, <<".">>, <<",", " ">>, <<" ", "a", "n", "d", " ">>, <<" ">>,
     <<"M", "r", ".", " ">>, <<"[", "0", "0", ":", "0", "0", "]">>}

\* texts cut at other whitespace than blank, newline and tab, and a text
\* with a letter outside ASCII before the dot
SplitInputs ==
    {Flatten(ps) : ps \in SeqsUpTo(SplitParts, MaxParts)} \cup
    {Run("a", 60) \o <<",", "\r">> \o Run("b", 60),
     Run("a", 60) \o <<" ", "a", "n", "d", "\r">> \o Run("b", 60),
     Run("a", 30) \o <<".", "\f">> \o Run("b", 30),
     <<"\r">> \o Run("a", 30) \o <<".", "U+00A0">>,
     <<"U+00E9", ".", "g", ".", " ">> \o Run("b", 30),
     <<"U+05D0", ".", "g", ".", " ">> \o Run("b", 30),
     Run("b", 30) \o <<" ", "U+4E2D", ".", "U+4E2D", ".", " ">> \o Run("c", 30)}

QuoteParts ==
    {<<"[", "0", "0", ":", "0", "5", "]", " ">>,
     Run("g", 20) \o <<".", " ">>,
     Run("k", 20) \o <<"?", " ">>,
     Run("m", 21) \o <<" ">>}

QuoteTranscripts == {Flatten(ps) : ps \in SeqsUpTo(QuoteParts, MaxQuoteParts)}

SentimentTypes == {"positive", "negative", "neutral", "Positive", ""}

FormatParts == {Rep(1), Rep(99), Rep(100), <<" ">>, <<" ", " ">>}

FormatInputs ==
    {Flatten(ps) : ps \in SeqsUpTo(FormatParts, MaxParts)}
    \cup {<<"a", " ", " ", "\r">>, <<"\f", "a">>}

InitQuotes ==
    /\ WebIdle
    /\ TextIdle
    /\ ConIdle
    /\ ApiIdle
    /\ sentiment_results = NoResult
    /\ \/ /\ qpc = "split"
          /\ split_text \in SplitInputs
          /\ quote_text = <<>>
          /\ top_n = 0
          /\ sentiment_type = "positive"
       \/ /\ qpc = "format"
          /\ split_text = <<>>
          /\ quote_text \in FormatInputs
          /\ top_n = 0
          /\ sentiment_type = "positive"
       \/ /\ qpc = "quotes"
          /\ split_text = <<>>
          /\ quote_text = <<>>
          /\ top_n \in (-1)..MaxTopN
          /\ sentiment_type \in SentimentTypes
       \/ /\ qpc = "sentiment"
          /\ split_text = <<>>
          /\ quote_text = <<>>
          /\ top_n \in (-1)..MaxTopN
          /\ sentiment_type = "positive"
    /\ quote = <<>>
    /\ sentences = <<>>
    /\ spans = <<>>
    /\ analyzed_sentences = <<>>
    /\ filtered_sentences = <<>>
    /\ top_quotes = <<>>

\* split_into_sentences(split_text)
SplitIntoSentences ==
    /\ qpc = "split"
    /\ sentences' = split_into_sentences(split_text)
    /\ spans' = split_spans(split_text)
    /\ qpc' = "split_done"
    /\ UNCHANGED <<split_text, top_n, sentiment_type, analyzed_sentences,
                   filtered_sentences, top_quotes, quote_text, quote,
                   sentiment_results>>

\* format_quote(quote_text)
FormatQuote ==
    /\ qpc = "format"
    /\ quote' = format_quote(quote_text)
    /\ qpc' = "format_done"
    /\ UNCHANGED <<split_text, sentences, spans, top_n, sentiment_type,
                   analyzed_sentences, filtered_sentences, top_quotes, quote_text,
                   sentiment_results>>

\* get_top_quotes(transcript, top_n, sentiment_type); pos is where the
\* candidate stands in sentences
GetTopQuotes(t) ==
    /\ qpc = "quotes"
    /\ tpc = "idle"
    /\ transcript' = t
    /\ cleaned' = clean_transcript(t)
    /\ split_text' = cleaned'
    /\ sentences' = split_into_sentences(cleaned')
    /\ spans' = split_spans(cleaned')
    /\ \E compound \in [1..Len(sentences') -> Scores] :
          /\ \A i, j \in 1..Len(sentences') :
                sentences'[i] = sentences'[j] => compound[i] = compound[j]
          /\ analyzed_sentences' =
                [k \in 1..Len(sentences') |->
                    [text |-> sentences'[k], compound |-> compound[k], pos |-> k]]
    /\ filtered_sentences' =
          sorted(filter(analyzed_sentences', sentiment_type),
                 sentiment_type = "positive")
    /\ top_quotes' =
          LET top == Slice(filtered_sentences', top_n)
          IN  [k \in 1..Len(top) |->
                  [quote |-> format_quote(top[k].text), score |-> top[k].compound]]
    /\ qpc' = "quotes_done"
    /\ UNCHANGED <<top_n, sentiment_type, segments, tpc, recleaned, quote_text, quote,
                   sentiment_results>>

\* sentiment_analyzer.py lines 15-107: the methods of class SentimentAnalyzer
SentimentAnalyzerMethods ==
    {"__init__", "clean_transcript", "split_into_sentences", "analyze_sentiment",
     "get_top_quotes", "format_quote"}

\* attribute lookup on a SentimentAnalyzer object: a method of the class
\* (lines 18-107) comes back bound, sia is set by __init__ (line 19), the
\* other names are those every object of a plain class has; the class defines
\* no __getattr__, so any other name raises AttributeError
getattr(name) ==
    IF name \in SentimentAnalyzerMethods
    THEN [bound |-> name]
    ELSE IF name = "sia" \/ name \in
            {"__class__", "__delattr__", "__dict__", "__dir__", "__doc__", "__eq__",
             "__format__", "__ge__", "__getattribute__", "__getstate__", "__gt__",
             "__hash__", "__init_subclass__", "__le__", "__lt__", "__module__",
             "__ne__", "__new__", "__reduce__", "__reduce_ex__", "__repr__",
             "__setattr__", "__sizeof__", "__str__", "__subclasshook__",
             "__weakref__"}
    THEN [attribute |-> name]
    ELSE Raised("AttributeError")

\* enhanced_client.py lines 50-67: analyze_sentiment(transcript_text, top_n).
\* Line 62 looks up analyzer.get_top_sentiments; nothing catches what the
\* lookup raises, and lines 64-67 are reached only if it returns.
enhanced_client_analyze_sentiment(t, n) ==
    LET method == getattr("get_top_sentiments")
    IN  IF "raised" \in DOMAIN method
        THEN method
        ELSE [status |-> "returned", called |-> method.bound]

\* analyze_sentiment(transcript, top_n) of enhanced_client.py
AnalyzeSentiment(t) ==
    /\ qpc = "sentiment"
    /\ tpc = "idle"
    /\ transcript' = t
    /\ sentiment_results' = enhanced_client_analyze_sentiment(t, top_n)
    /\ qpc' = "sentiment_done"
    /\ UNCHANGED <<split_text, sentences, spans, top_n, sentiment_type,
                   analyzed_sentences, filtered_sentences, top_quotes, quote_text,
                   quote, segments, tpc, cleaned, recleaned>>

NextQuotes ==
    \/ SplitIntoSentences /\ UNCHANGED <<webVars, textVars, conVars, apiVars>>
    \/ FormatQuote /\ UNCHANGED <<webVars, textVars, conVars, apiVars>>
    \/ (\E t \in QuoteTranscripts : GetTopQuotes(t)) /\ UNCHANGED <<webVars, conVars, apiVars>>
    \/ (\E t \in QuoteTranscripts : AnalyzeSentiment(t)) /\ UNCHANGED <<webVars, conVars, apiVars>>

SpecQuotes == InitQuotes /\ [][NextQuotes]_vars

----------------------------------------------------------------------------
(* Two extract_content calls served at the same time.  The url, the three   *)
(* results and the position of a call are locals of that call (lines        *)
(* 210-251); site is what the servers of its url answer to each strategy.   *)

Requests == {1, 2}

ConUrls ==
    {<<"h", ":", "/", "/", "1">>, <<"h", ":", "/", "/", "h">>, <<"h">>}

ConTrafEnvs ==
    {env \in TrafEnvs : /\ env.exc = "timed out" /\ env.extract = "ok" /\ env.meta = "ok"
                        /\ env.fetch \in {"none", "ok"}
                        /\ Len(env.text) \in {50, 201}}

ConNewsEnvs ==
    {env \in NewsEnvs : /\ env.exc = "timed out" /\ env.stage \in {"download", "ok"}
                        /\ Len(env.text) \in {80, 300}}

ConBsEnvs ==
    {env \in BsEnvs : /\ env.exc = "timed out" /\ env.http = "ok"
                      /\ env.ptext = env.alltext /\ Len(env.ptext) \in {0, 80}}

Sites == [traf : ConTrafEnvs, news : ConNewsEnvs, bs : ConBsEnvs]

\* lines 210-251 for one call, from its first line to its return
extract_content(u, site) ==
    IF ~is_valid_url(u) THEN InvalidUrlError
    ELSE LET t == extract_with_trafilatura(site.traf)
             n == extract_with_newspaper(site.news)
             b == extract_with_beautifulsoup(site.bs)
         IN  IF MeetsGate(t) THEN t
             ELSE IF MeetsGate(n) THEN n
             ELSE IF BsAccepted(b) THEN b
             ELSE Fallback(<<t, n, b>>)

NewRequest(u, site) ==
    [url |-> u, site |-> site, pc |-> "start",
     trafilatura_result |-> NotCalled, newspaper_result |-> NotCalled,
     bs_result |-> NotCalled, ret |-> NotCalled]

InitCon ==
    /\ WebIdle
    /\ TextIdle
    /\ QuoteIdle
    /\ ApiIdle
    /\ reqs \in [Requests -> {NewRequest(u, site) : u \in ConUrls, site \in Sites}]
    /\ \A r, o \in Requests : r # o => reqs[r].url # reqs[o].url
    /\ overlapped = FALSE

\* another call is between two of its steps
OthersMidway(r) ==
    \E o \in Requests \ {r} : reqs[o].pc \notin {"start", "done"}

\* faulty variant: the results are kept in one place, where the other call
\* writes too
StoredResults_shared(r) ==
    LET o == CHOOSE o \in Requests : o # r
    IN  <<reqs[o].trafilatura_result, reqs[o].newspaper_result>>

\* lines 228 and 233: the locals trafilatura_result and newspaper_result
StoredResults(r) == <<reqs[r].trafilatura_result, reqs[r].newspaper_result>>

\* lines 221-225, in call r
RequestRejectUrl(r) ==
    /\ reqs[r].pc = "start"
    /\ ~is_valid_url(reqs[r].url)
    /\ reqs' = [reqs EXCEPT ![r].ret = InvalidUrlError, ![r].pc = "done"]
    /\ overlapped' = (overlapped \/ OthersMidway(r))

\* lines 221, 228-230, in call r
RequestTryTrafilatura(r) ==
    /\ reqs[r].pc = "start"
    /\ is_valid_url(reqs[r].url)
    /\ LET res == extract_with_trafilatura(reqs[r].site.traf)
       IN  reqs' = [reqs EXCEPT ![r].trafilatura_result = res,
                                ![r].ret = IF MeetsGate(res) THEN res ELSE @,
                                ![r].pc = IF MeetsGate(res) THEN "done" ELSE "newspaper"]
    /\ overlapped' = (overlapped \/ OthersMidway(r))

\* lines 233-235, in call r
RequestTryNewspaper(r) ==
    /\ reqs[r].pc = "newspaper"
    /\ LET res == extract_with_newspaper(reqs[r].site.news)
       IN  reqs' = [reqs EXCEPT ![r].newspaper_result = res,
                                ![r].ret = IF MeetsGate(res) THEN res ELSE @,
                                ![r].pc = IF MeetsGate(res) THEN "done" ELSE "beautifulsoup"]
    /\ overlapped' = (overlapped \/ OthersMidway(r))

\* lines 238-251, in call r
RequestTryBeautifulSoup(r) ==
    /\ reqs[r].pc = "beautifulsoup"
    /\ LET res == extract_with_beautifulsoup(reqs[r].site.bs)
       IN  reqs' = [reqs EXCEPT ![r].bs_result = res,
                                ![r].ret = IF BsAccepted(res) THEN res
                                           ELSE Fallback(StoredResults(r) \o <<res>>),
                                ![r].pc = "done"]
    /\ overlapped' = (overlapped \/ OthersMidway(r))

NextCon ==
    \/ (\E r \in Requests : RequestRejectUrl(r)) /\ UNCHANGED <<webVars, textVars, quoteVars, apiVars>>
    \/ (\E r \in Requests : RequestTryTrafilatura(r)) /\ UNCHANGED <<webVars, textVars, quoteVars, apiVars>>
    \/ (\E r \in Requests : RequestTryNewspaper(r)) /\ UNCHANGED <<webVars, textVars, quoteVars, apiVars>>
    \/ (\E r \in Requests : RequestTryBeautifulSoup(r)) /\ UNCHANGED <<webVars, textVars, quoteVars, apiVars>>

SpecCon == InitCon /\ [][NextCon]_vars

----------------------------------------------------------------------------
(* TranscriptService.extract_video_id and get_transcript *)

IdLen == 11

\* [0-9A-Za-z_-]
IsIdChar(c) == c \in LowerChars \/ c \in UpperChars \/ c \in AsciiDigits \/ c \in {"_", "-"}

\* ([0-9A-Za-z_-]{11}) matches at position p of u
IdAt(u, p) ==
    /\ p + IdLen - 1 <= Len(u)
    /\ \A k \in p..(p + IdLen - 1) : IsIdChar(u[k])

\* the word w stands at position p of u
StartsAt(u, p, w) ==
    /\ p + Len(w) - 1 <= Len(u)
    /\ SubSeq(u, p, p + Len(w) - 1) = w

\* re.search of (?:w1|w2|...)([0-9A-Za-z_-]{11}) in u: group 1 of the leftmost
\* match, or None
SearchId(u, words) ==
    LET hits == {p \in 1..Len(u) : \E w \in words : StartsAt(u, p, w) /\ IdAt(u, p + Len(w))}
    IN  IF hits = {} THEN None
        ELSE LET p == CHOOSE q \in hits : \A r \in hits : q <= r
                 w == CHOOSE x \in words : StartsAt(u, p, x) /\ IdAt(u, p + Len(x))
             IN  SubSeq(u, p + Len(w), p + Len(w) + IdLen - 1)

StandardWords == {<<"v", "=">>, <<"/">>}

EmbedWords == {<<"e", "m", "b", "e", "d", "/">>}

ShortWords == {<<"y", "o", "u", "t", "u", ".", "b", "e", "/">>}

\* lines 26-37
extract_video_id(u) ==
    LET standard == SearchId(u, StandardWords)
        embed    == SearchId(u, EmbedWords)
        short    == SearchId(u, ShortWords)
    IN  IF standard # None THEN standard
        ELSE IF embed # None THEN embed
        ELSE short

\* faulty variant: None counts as a video id
TruthyStr_always(x) == TRUE

\* a str or None is truthy
TruthyStr(x) == x # None /\ x # <<>>

En == <<"e", "n">>

Es == <<"e", "s">>

Fr == <<"f", "r">>

\* the segments transcript.fetch() returns for the transcript in language l
TranscriptOf(l) == <<[text |-> l, start |-> 65]>>

Libraries ==
    [list : {"ok", "disabled", "raise"}, available : SUBSET {En, Es},
     fetch : {"ok", "raise"}, exc : {"timed out"}]

TranscriptError(message) == [status |-> "error", message |-> message]

\* lines 61-64 and 71-78: fetch of the transcript found for the language l
FetchTranscript(l, lib) ==
    IF lib.fetch = "raise"
    THEN TranscriptError("Error retrieving transcript: " \o lib.exc)
    ELSE [status |-> "success", transcript |-> TranscriptOf(l), language |-> l]

\* faulty variant: no fallback to the English transcript
get_transcript_no_fallback(id, lang, lib) ==
    IF lib.list = "disabled"
    THEN TranscriptError("Transcripts are disabled for this video")
    ELSE IF lib.list = "raise"
    THEN TranscriptError("Error retrieving transcript: " \o lib.exc)
    ELSE IF TruthyStr(lang) /\ lang \in lib.available
    THEN FetchTranscript(lang, lib)
    ELSE IF ~TruthyStr(lang) /\ En \in lib.available
    THEN FetchTranscript(En, lib)
    ELSE TranscriptError("No transcript found for this video")

\* lines 50-93
get_transcript(id, lang, lib) ==
    IF lib.list = "disabled"
    THEN TranscriptError("Transcripts are disabled for this video")
    ELSE IF lib.list = "raise"
    THEN TranscriptError("Error retrieving transcript: " \o lib.exc)
    ELSE IF TruthyStr(lang) /\ lang \in lib.available
    THEN FetchTranscript(lang, lib)
    ELSE IF En \in lib.available
    THEN FetchTranscript(En, lib)
    ELSE TranscriptError("No transcript found for this video")

----------------------------------------------------------------------------
(* The handlers of POST /transcript and POST /content (app/api.py), and     *)
(* direct calls of extract_video_id and get_transcript.  A handler either   *)
(* returns a dict, answered with code 200, or raises an HTTPException.      *)

VideoId == <<"d", "Q", "w", "4", "w", "9", "W", "g", "X", "c", "Q">>

YoutubeHost == <<"h", "t", "t", "p", "s", ":", "/", "/", "w", "w", "w", ".", "y", "o", "u", "t", "u", "b", "e", ".", "c", "o", "m", "/">>

ShortHost == <<"h", "t", "t", "p", "s", ":", "/", "/", "y", "o", "u", "t", "u", ".", "b", "e", "/">>

ExampleHost == <<"h", "t", "t", "p", "s", ":", "/", "/", "e", "x", "a", "m", "p", "l", "e", ".", "c", "o", "m", "/">>

LongHost == <<"h", "t", "t", "p", "s", ":", "/", "/", "s", "t", "a", "c", "k", "o", "v", "e", "r", "f", "l", "o", "w", ".", "c", "o", "m", "/">>

VideoUrls ==
    {YoutubeHost \o <<"w", "a", "t", "c", "h", "?", "v", "=">> \o VideoId,
     YoutubeHost \o <<"e", "m", "b", "e", "d", "/">> \o VideoId,
     ShortHost \o VideoId}

PageUrls ==
    {ExampleHost,
     ExampleHost \o <<"a", "b", "o", "u", "t">>,
     ExampleHost \o <<"i", "n", "t", "r", "o", "d", "u", "c", "t", "i", "o", "n", "-", "t", "o", "-", "t", "l", "a">>,
     LongHost}

ApiUrls == VideoUrls \cup PageUrls

IdParts ==
    {YoutubeHost, ShortHost, ExampleHost, LongHost, <<"w", "a", "t", "c", "h", "?", "v", "=">>, <<"e", "m", "b", "e", "d", "/">>,
     VideoId, <<"a", "b", "o", "u", "t">>, <<"i", "n", "t", "r", "o", "d", "u", "c", "t", "i", "o", "n", "-", "t", "o", "-", "t", "l", "a">>, <<"&", "t", "=", "1", "s">>}

\* the last three: decimal digits outside ASCII where an identifier would be
IdInputs ==
    {Flatten(ps) : ps \in SeqsUpTo(IdParts, MaxIdParts)} \cup
    {<<"v", "=">> \o Run("U+0661", 11),
     ShortHost \o Run("U+0661", 11),
     <<"e", "m", "b", "e", "d", "/">> \o Run("1", 10) \o <<"U+FF11">>}

Languages == {None, <<>>, En, Es, Fr}

InitApi ==
    /\ WebIdle
    /\ TextIdle
    /\ QuoteIdle
    /\ ConIdle
    /\ \/ /\ apc = "extract_video_id"
          /\ endpoint = "none"
          /\ api_url \in IdInputs
          /\ language = None
          /\ format_text = TRUE
          /\ video_id = None
       \/ /\ apc = "get_transcript"
          /\ endpoint = "none"
          /\ api_url = <<>>
          /\ language \in Languages
          /\ format_text = TRUE
          /\ video_id = VideoId
       \/ /\ apc = "request"
          /\ endpoint \in {"/transcript", "/content"}
          /\ api_url \in ApiUrls
          /\ language \in Languages
          /\ format_text \in BOOLEAN
          /\ video_id = None
    /\ library = [list |-> "ok"]
    /\ api_result = NoResult
    /\ api_calls = <<>>
    /\ response = NoResult

\* extract_video_id(api_url)
ExtractVideoId ==
    /\ apc = "extract_video_id"
    /\ video_id' = extract_video_id(api_url)
    /\ api_calls' = <<"extract_video_id">>
    /\ apc' = "done"
    /\ UNCHANGED <<endpoint, api_url, language, format_text, library, api_result, response>>

\* get_transcript(video_id, language)
GetTranscript ==
    /\ apc = "get_transcript"
    /\ \E lib \in Libraries :
          /\ library' = lib
          /\ api_result' = get_transcript(video_id, language, lib)
    /\ api_calls' = <<"get_transcript">>
    /\ apc' = "done"
    /\ UNCHANGED <<endpoint, api_url, language, format_text, video_id, response>>

HTTPException(code, detail) == [code |-> code, detail |-> detail]

Returned(body) == [code |-> 200, body |-> body]

\* what the client gets when the returned dict does not validate against the
\* route's response_model: FastAPI raises and the server answers 500
InternalServerError == [code |-> 500, detail |-> "Internal Server Error"]

\* lines 58 and 174: ContentResponse.text is Optional[str]; the formatted
\* transcript is a str, the list of segments is not
ValidContentText(out) == "formatted" \in DOMAIN out

\* lines 100-116 and 200-218: the transcript as list or as formatted text
TranscriptOutput(result, fmt) ==
    IF fmt THEN [formatted |-> format_transcript(result["transcript"])]
    ELSE [segments |-> result["transcript"]]

CallsAfterTranscript(result, fmt) ==
    IF result["status"] # "error" /\ fmt
    THEN <<"extract_video_id", "get_transcript", "format_transcript">>
    ELSE <<"extract_video_id", "get_transcript">>

\* api.py lines 82-119
PostTranscript ==
    /\ apc = "request"
    /\ endpoint = "/transcript"
    /\ video_id' = extract_video_id(api_url)
    /\ IF ~TruthyStr(video_id')
       THEN /\ response' = HTTPException(400, "Invalid YouTube URL")
            /\ api_calls' = <<"extract_video_id">>
            /\ UNCHANGED <<library, api_result>>
       ELSE \E lib \in Libraries :
              /\ library' = lib
              /\ api_result' = get_transcript(video_id', language, lib)
              /\ api_calls' = CallsAfterTranscript(api_result', format_text)
              /\ response' =
                    IF api_result'["status"] = "error"
                    THEN Returned([status |-> "error",
                                   message |-> api_result'["message"],
                                   video_id |-> video_id'])
                    ELSE Returned([status |-> "success",
                                   video_id |-> video_id',
                                   language |-> api_result'["language"],
                                   transcript |-> TranscriptOutput(api_result', format_text)])
    /\ apc' = "done"
    /\ UNCHANGED <<endpoint, api_url, language, format_text>>

\* lines 224-232: the page's result under the keys of the response
WebpageBody(u, result) ==
    [k \in (DOMAIN result) \cup {"status", "url", "content_type"} |->
        IF k = "status" THEN "success"
        ELSE IF k = "url" THEN u
        ELSE IF k = "content_type" THEN "webpage"
        ELSE result[k]]

\* api.py lines 174-233
PostContent ==
    /\ apc = "request"
    /\ endpoint = "/content"
    /\ video_id' = extract_video_id(api_url)
    /\ IF TruthyStr(video_id')
       THEN \E lib \in Libraries :
              /\ library' = lib
              /\ api_result' = get_transcript(video_id', language, lib)
              /\ api_calls' = CallsAfterTranscript(api_result', format_text)
              /\ response' =
                    IF api_result'["status"] = "error"
                    THEN Returned([status |-> "error",
                                   url |-> api_url,
                                   content_type |-> "youtube",
                                   video_id |-> video_id',
                                   message |-> api_result'["message"]])
                    ELSE IF ~ValidContentText(TranscriptOutput(api_result', format_text))
                    THEN InternalServerError
                    ELSE Returned([status |-> "success",
                                   url |-> api_url,
                                   content_type |-> "youtube",
                                   video_id |-> video_id',
                                   language |-> api_result'["language"],
                                   text |-> TranscriptOutput(api_result', format_text)])
       ELSE \E site \in Sites :
              /\ library' = site
              /\ api_result' = extract_content(api_url, site)
              /\ api_calls' = <<"extract_video_id", "extract_content">>
              /\ response' =
                    IF api_result'["status"] = "error"
                    THEN Returned([status |-> "error",
                                   url |-> api_url,
                                   content_type |-> "webpage",
                                   message |-> api_result'["message"]])
                    ELSE Returned(WebpageBody(api_url, api_result'))
    /\ apc' = "done"
    /\ UNCHANGED <<endpoint, api_url, language, format_text>>

NextApi ==
    \/ ExtractVideoId /\ UNCHANGED <<webVars, textVars, quoteVars, conVars>>
    \/ GetTranscript /\ UNCHANGED <<webVars, textVars, quoteVars, conVars>>
    \/ PostTranscript /\ UNCHANGED <<webVars, textVars, quoteVars, conVars>>
    \/ PostContent /\ UNCHANGED <<webVars, textVars, quoteVars, conVars>>

SpecApi == InitApi /\ [][NextApi]_vars

----------------------------------------------------------------------------
(* Properties of extract_content, checked under Spec *)

Succeeded(r) == r["status"] = "success"

Failed(r) == r["status"] = "error"

TextLen(r) == IF "text" \in DOMAIN r THEN Len(r["text"]) ELSE 0

\* the quality gate as the specification words it
OverFloor(r) == Succeeded(r) /\ TextLen(r) > 200

\* partial content: success with a non-empty text
Usable(r) == Succeeded(r) /\ TextLen(r) > 0

Order == <<"trafilatura", "newspaper3k", "beautifulsoup">>

\* C1: a trafilatura result over the floor is returned as it is and nothing
\* else is invoked; when trafilatura is under the gate and newspaper3k is over
\* the floor, newspaper3k's result is returned and beautifulsoup is not invoked.
C1_ShortCircuit ==
    /\ OverFloor(trafilatura_result) =>
         /\ pc = "done"
         /\ ret = trafilatura_result
         /\ calls = <<"trafilatura">>
    /\ (~OverFloor(trafilatura_result) /\ OverFloor(newspaper_result)) =>
         /\ pc = "done"
         /\ ret = newspaper_result
         /\ calls = <<"trafilatura", "newspaper3k">>

C1_Witness ==
    /\ pc = "done"
    /\ Succeeded(trafilatura_result) /\ TextLen(trafilatura_result) = 50
    /\ OverFloor(newspaper_result)
    /\ ret = newspaper_result
    /\ bs_result = NotCalled

\* C2 as claimed: a trafilatura success of 200 characters or more, exactly 200
\* included, is returned and no other strategy executes.
C2_AtLeast200 ==
    (pc = "done" /\ Succeeded(trafilatura_result) /\ TextLen(trafilatura_result) >= 200) =>
        /\ "method" \in DOMAIN ret
        /\ ret["method"] = "trafilatura"
        /\ calls = <<"trafilatura">>

\* C2 as amended: a trafilatura success of more than 200 characters ends the
\* call with a result whose method is trafilatura, no other strategy executing.
C2_MoreThan200 ==
    (pc = "done" /\ Succeeded(trafilatura_result) /\ TextLen(trafilatura_result) > 200) =>
        /\ "method" \in DOMAIN ret
        /\ ret["method"] = "trafilatura"
        /\ calls = <<"trafilatura">>

C2_Witness ==
    /\ pc = "done"
    /\ Succeeded(trafilatura_result) /\ TextLen(trafilatura_result) = 201
    /\ ret["method"] = "trafilatura"
    /\ newspaper_result = NotCalled /\ bs_result = NotCalled

NoneOverFloor ==
    /\ pc = "done"
    /\ Len(calls) = 3
    /\ ~OverFloor(trafilatura_result)
    /\ ~OverFloor(newspaper_result)
    /\ ~OverFloor(bs_result)

\* C3 as claimed: with no result over the floor, the first usable result in
\* the order trafilatura, newspaper3k, beautifulsoup is the one returned.
C3_FirstUsable ==
    NoneOverFloor =>
        /\ Usable(trafilatura_result) => ret = trafilatura_result
        /\ (~Usable(trafilatura_result) /\ Usable(newspaper_result)) =>
             ret = newspaper_result
        /\ (~Usable(trafilatura_result) /\ ~Usable(newspaper_result)
              /\ Usable(bs_result)) => ret = bs_result

\* C3 as amended: with no result over the floor, a usable beautifulsoup result
\* is returned; without one, the first usable of trafilatura, newspaper3k.
C3_ScraperThenFirstUsable ==
    NoneOverFloor =>
        /\ Usable(bs_result) => ret = bs_result
        /\ (~Usable(bs_result) /\ Usable(trafilatura_result)) =>
             ret = trafilatura_result
        /\ (~Usable(bs_result) /\ ~Usable(trafilatura_result)
              /\ Usable(newspaper_result)) => ret = newspaper_result

C3_Witness ==
    /\ NoneOverFloor
    /\ ~Usable(bs_result)
    /\ Usable(trafilatura_result) /\ Usable(newspaper_result)
    /\ ret = trafilatura_result

FirstTwoFall ==
    /\ pc = "done"
    /\ Len(calls) = 3
    /\ Failed(trafilatura_result) \/
         (Succeeded(trafilatura_result) /\ TextLen(trafilatura_result) < 200)
    /\ Failed(newspaper_result) \/
         (Succeeded(newspaper_result) /\ TextLen(newspaper_result) < 200)

\* C4 as claimed: when the first two strategies fail or stay under 200
\* characters and the scraper succeeds, the scraper's result is returned,
\* whatever its text, the empty text included.
C4_ScraperAnyText ==
    (FirstTwoFall /\ Succeeded(bs_result)) => ret = bs_result

\* C4 as amended: when the first two strategies fail or stay under 200
\* characters and the scraper succeeds with a non-empty text, the scraper's
\* result is returned.
C4_ScraperNonEmptyText ==
    (FirstTwoFall /\ Succeeded(bs_result) /\ TextLen(bs_result) > 0) => ret = bs_result

C4_Witness ==
    /\ FirstTwoFall
    /\ Succeeded(trafilatura_result) /\ TextLen(trafilatura_result) = 199
    /\ Succeeded(bs_result) /\ TextLen(bs_result) = 80
    /\ ret = bs_result

AllFailed ==
    /\ pc = "done"
    /\ Failed(trafilatura_result)
    /\ Failed(newspaper_result)
    /\ Failed(bs_result)

\* C5: when all three strategies fail, the result is the one fixed error, with
\* no method and no strategy's message in it.
C5_UniformError ==
    AllFailed =>
        /\ DOMAIN ret = {"status", "message"}
        /\ ret["status"] = "error"
        /\ ret["message"] =
             "Failed to extract content from the URL using all available methods"

C5_Witness ==
    /\ AllFailed
    /\ trafilatura_result["message"] = "Failed to download content"
    /\ bs_result["message"] = "Error extracting with BeautifulSoup: timed out"
    /\ ret["status"] = "error"

LacksSchemeOrHost ==
    LET parsed == urlparse(url)
    IN  parsed.raised \/ parsed.scheme = <<>> \/ parsed.netloc = <<>>

\* C6: a URL without a scheme or without a host is answered 'Invalid URL
\* format' at once and no strategy is invoked.
C6_InvalidUrl ==
    (pc # "idle" /\ LacksSchemeOrHost) =>
        /\ calls = <<>>
        /\ pc \in {"start", "done"}
        /\ trafilatura_result = NotCalled
        /\ newspaper_result = NotCalled
        /\ bs_result = NotCalled
        /\ pc = "done" =>
             ret = [status |-> "error", message |-> "Invalid URL format"]

C6_Witness ==
    /\ pc = "done"
    /\ urlparse(url).scheme = <<"h">>
    /\ urlparse(url).netloc = <<>>
    /\ calls = <<>>
    /\ ret["message"] = "Invalid URL format"

\* C7: the strategies run in the order trafilatura, newspaper3k,
\* beautifulsoup, each at most once; a later one runs exactly when every
\* earlier one ran and stayed under the gate, and when it is over the floor
\* its result is the one returned.
C7_CascadeOrder ==
    /\ calls = SubSeq(Order, 1, Len(calls))
    /\ pc = "done" =>
         /\ (Len(calls) >= 2) <=>
              (Len(calls) >= 1 /\ ~OverFloor(trafilatura_result))
         /\ (Len(calls) >= 3) <=>
              (Len(calls) >= 2 /\ ~OverFloor(trafilatura_result)
                 /\ ~OverFloor(newspaper_result))
         /\ (Len(calls) >= 2 /\ OverFloor(newspaper_result)) => ret = newspaper_result
         /\ (Len(calls) >= 3 /\ OverFloor(bs_result)) => ret = bs_result

C7_Witness ==
    /\ pc = "done"
    /\ calls = Order
    /\ Succeeded(trafilatura_result) /\ TextLen(trafilatura_result) = 50
    /\ Failed(newspaper_result)
    /\ Succeeded(bs_result) /\ TextLen(bs_result) = 201
    /\ ret = bs_result

SuccessWithText(r) == r["status"] = "success" /\ "text" \in DOMAIN r

ErrorWithMessage(r) == r["status"] = "error" /\ "message" \in DOMAIN r

WellFormed(r) == SuccessWithText(r) # ErrorWithMessage(r)

\* C8: every strategy that is invoked returns a result (no exception leaves
\* it), and the result is either a success with a text or an error with a
\* message, never both and never neither.
C8_StrategyResult ==
    /\ pc # "raised"
    /\ Len(calls) >= 1 => WellFormed(trafilatura_result)
    /\ Len(calls) >= 2 => WellFormed(newspaper_result)
    /\ Len(calls) >= 3 => WellFormed(bs_result)

C8_Witness ==
    /\ pc = "done"
    /\ Len(calls) = 3
    /\ Failed(trafilatura_result) /\ Failed(newspaper_result) /\ Failed(bs_result)
    /\ trafilatura_result["message"] = "Failed to extract content"
    /\ newspaper_result["message"] = "Error extracting with newspaper3k: timed out"
    /\ bs_result["message"] = "Error extracting with BeautifulSoup: 404 Client Error"

----------------------------------------------------------------------------
(* Properties of clean_transcript and format_transcript, checked under     *)
(* SpecText                                                                *)

\* C9: cleaning a cleaned transcript changes nothing.
C9_Idempotent == (tpc = "recleaned") => (recleaned = cleaned)

HasText(seg) == "text" \in DOMAIN seg /\ seg["text"] # <<>>

NoWhitespaceRun(t) == \A i \in 1..(Len(t) - 1) : ~(IsSpace(t[i]) /\ IsSpace(t[i + 1]))

NoEdgeWhitespace(t) == ~IsSpace(t[1]) /\ ~IsSpace(t[Len(t)])

NoOpeningBracket(t) == \A i \in 1..Len(t) : t[i] # "["

OnlyBlanks(t) == \A i \in 1..Len(t) : IsSpace(t[i]) => t[i] = " "

\* the segment texts joined in order by single spaces
RECURSIVE Spoken(_)
Spoken(segs) ==
    IF segs = <<>> THEN <<>>
    ELSE IF Len(segs) = 1 THEN segs[1]["text"]
    ELSE segs[1]["text"] \o <<" ">> \o Spoken(Tail(segs))

PlainSegments ==
    \A k \in 1..Len(segments) :
        /\ HasText(segments[k])
        /\ NoWhitespaceRun(segments[k]["text"])
        /\ NoEdgeWhitespace(segments[k]["text"])
        /\ NoOpeningBracket(segments[k]["text"])

\* C10 as claimed: for segments whose texts are non-empty, have no run of
\* whitespace, no whitespace at either end and no '[', cleaning the formatted
\* transcript gives the texts joined by single spaces.
C10_RoundTrip ==
    (tpc = "normalized" /\ PlainSegments) => cleaned = Spoken(segments)

\* C10 as amended: the same, for texts whose only whitespace characters are
\* single blanks between other characters.
C10_RoundTripBlanks ==
    (tpc = "normalized" /\ PlainSegments
       /\ \A k \in 1..Len(segments) : OnlyBlanks(segments[k]["text"]))
    => cleaned = Spoken(segments)

C10_Witness ==
    /\ tpc = "normalized"
    /\ Len(segments) = 2
    /\ PlainSegments
    /\ segments[1] = [text |-> <<"a", " ", "b">>, start |-> 6000]
    /\ segments[2]["text"] = <<"0", ":", "0", "]">>
    /\ cleaned = <<"a", " ", "b", " ", "0", ":", "0", "]">>

----------------------------------------------------------------------------
(* Properties of clean_transcript and format_transcript, continued *)

\* s[i..j] is '[' digits ':' digits ']'; with fixed, two digits on each side
IsMarkerSpan(s, i, j, fixed) ==
    /\ s[i] = "[" /\ s[j] = "]"
    /\ \E c \in (i + 2)..(j - 2) :
         /\ s[c] = ":"
         /\ \A k \in (i + 1)..(c - 1) : IsDigit(s[k])
         /\ \A k \in (c + 1)..(j - 1) : IsDigit(s[k])
         /\ fixed => (c = i + 3 /\ j = i + 6)

\* position k of s lies inside a marker
InMarker(s, k, fixed) ==
    \E i \in 1..k :
        /\ s[i] = "["
        /\ LET j == FindFrom(s, "]", i)
           IN  j >= k /\ IsMarkerSpan(s, i, j, fixed)

\* the non-whitespace characters of s outside the markers, in order
Unmarked(s, fixed) ==
    LET idx == [i \in 1..Len(s) |-> i]
        sel == SelectSeq(idx, LAMBDA i : ~IsSpace(s[i]) /\ ~InMarker(s, i, fixed))
    IN  [k \in 1..Len(sel) |-> s[sel[k]]]

NonSpace(s) == SelectSeq(s, LAMBDA c : ~IsSpace(c))

Tidy(t) == (t = <<>> \/ NoEdgeWhitespace(t)) /\ NoWhitespaceRun(t)

\* C11 as claimed: only markers of two digits, a colon and two digits are
\* removed; every other non-whitespace character is kept in order, and the
\* output has no whitespace at its ends and no two whitespace characters in a row.
C11_FixedMarkersOnly ==
    (tpc \in {"cleaned", "normalized"}) =>
        /\ NonSpace(cleaned) = Unmarked(transcript, TRUE)
        /\ Tidy(cleaned)

\* C11 as amended: the markers removed are '[' digits ':' digits ']' with one
\* or more digits on each side; the rest as claimed.
C11_DigitRunMarkersOnly ==
    (tpc \in {"cleaned", "normalized"}) =>
        /\ NonSpace(cleaned) = Unmarked(transcript, FALSE)
        /\ Tidy(cleaned)

C11_Witness ==
    /\ tpc = "cleaned"
    /\ transcript = <<"[", "0", ":", "0", "]", "a">>
    /\ cleaned = <<"a">>

\* the two low decimal digits of n
TwoDigits(n) == <<DigitChars[((n \div 10) % 10) + 1], DigitChars[(n % 10) + 1]>>

\* n in decimal, in two digits when it is under 100
AtLeastTwoDigits(n) == IF n < 100 THEN TwoDigits(n) ELSE Decimal(n)

SegStart(seg) == IF "start" \in DOMAIN seg THEN seg["start"] ELSE 0

SegText(seg) == IF "text" \in DOMAIN seg THEN seg["text"] ELSE <<>>

\* transcript from position p on is one line per segment of segs, the minutes
\* written in exactly two digits (fixed) or in two digits or more
RECURSIVE LinesFrom(_, _, _)
LinesFrom(p, segs, fixed) ==
    IF segs = <<>> THEN p = Len(transcript) + 1
    ELSE LET mm   == SegStart(segs[1]) \div 60
             ss   == SegStart(segs[1]) % 60
             line == <<"[">> \o (IF fixed THEN TwoDigits(mm) ELSE AtLeastTwoDigits(mm))
                     \o <<":">> \o TwoDigits(ss) \o <<"]", " ">>
                     \o SegText(segs[1]) \o <<"\n">>
         IN  /\ p + Len(line) - 1 <= Len(transcript)
             /\ SubSeq(transcript, p, p + Len(line) - 1) = line
             /\ (fixed => mm < 100)
             /\ LinesFrom(p + Len(line), Tail(segs), fixed)

\* C12 as claimed: one line '[MM:SS] text' per segment, in order, MM and SS
\* each in exactly two digits for every start offset.
C12_TwoDigitFields == (tpc = "formatted") => LinesFrom(1, segments, TRUE)

\* C12 as amended: one line per segment, in order; SS in exactly two digits,
\* MM zero-padded to two digits and in three or more from 6000 seconds on.
C12_PaddedFields == (tpc = "formatted") => LinesFrom(1, segments, FALSE)

C12_Witness ==
    /\ tpc = "formatted"
    /\ Len(segments) = 2
    /\ SegStart(segments[1]) = 6000
    /\ SegStart(segments[2]) = 65
    /\ SegText(segments[2]) = <<"a", " ", "b">>
    /\ SubSeq(transcript, 1, 9) = <<"[", "1", "0", "0", ":", "0", "0", "]", " ">>

----------------------------------------------------------------------------
(* Properties of split_into_sentences and get_top_quotes, checked under     *)
(* SpecQuotes                                                               *)

Segmented == qpc \in {"split_done", "quotes_done"}

Trimmed(t) == t # <<>> => ~IsSpace(t[1]) /\ ~IsSpace(t[Len(t)])

\* C13: every element returned by split_into_sentences has no leading or
\* trailing whitespace and a length strictly greater than 20 and strictly
\* less than 200 characters.
C13_SentenceLengths ==
    Segmented =>
        \A k \in 1..Len(sentences) :
            /\ Trimmed(sentences[k])
            /\ Len(sentences[k]) > 20
            /\ Len(sentences[k]) < 200

\* a piece of 21 characters is returned, without the whitespace after it
C13_Witness ==
    /\ qpc = "split_done"
    /\ split_text = Rep(20) \o <<".", " ">>
    /\ sentences = <<Rep(20) \o <<".">>>>

\* C14: the returned segments are non-overlapping contiguous spans of the
\* input text, listed in the order of their start positions, whether they
\* come from the coarse pass or from the sub-split pass.
C14_DocumentOrder ==
    Segmented =>
        /\ Len(spans) = Len(sentences)
        /\ \A k \in 1..Len(sentences) :
              /\ 1 <= spans[k].lo /\ spans[k].lo <= spans[k].hi
              /\ spans[k].hi <= Len(split_text)
              /\ sentences[k] = SubSeq(split_text, spans[k].lo, spans[k].hi)
        /\ \A k \in 1..(Len(sentences) - 1) : spans[k].hi < spans[k + 1].lo

\* two segments of a sub-split raw piece, then the next raw piece
C14_Witness ==
    /\ qpc = "split_done"
    /\ split_text = Run("c", 79) \o <<",", " ">> \o Run("z", 20) \o <<".", " ">> \o Rep(79)
    /\ sentences = <<Run("c", 79) \o <<",">>, Run("z", 20) \o <<".">>, Rep(79)>>

Ranked == qpc = "quotes_done"

G21 == Run("g", 20) \o <<".">>

K21 == Run("k", 20) \o <<"?">>

M21 == Run("m", 21)

Spoken3 == G21 \o <<" ">> \o K21 \o <<" ">> \o M21 \o <<" ">>

CompoundOf(k) == analyzed_sentences[k].compound

\* C15: a 'positive' result is non-increasing in score with every score
\* strictly greater than 0.2, a 'negative' result is non-decreasing with every
\* score strictly less than -0.2 (scores are in hundredths).
C15_OrderedAboveFloor ==
    Ranked =>
        /\ sentiment_type = "positive" =>
              /\ \A k \in 1..Len(top_quotes) : top_quotes[k].score > 20
              /\ \A k \in 1..(Len(top_quotes) - 1) :
                    top_quotes[k].score >= top_quotes[k + 1].score
        /\ sentiment_type = "negative" =>
              /\ \A k \in 1..Len(top_quotes) : top_quotes[k].score < -20
              /\ \A k \in 1..(Len(top_quotes) - 1) :
                    top_quotes[k].score <= top_quotes[k + 1].score

\* of three candidates scoring 0.21, 0.2 and 0.9, the first and the last are
\* returned, the highest first
C15_Witness ==
    /\ Ranked /\ sentiment_type = "positive" /\ top_n = 2
    /\ transcript = Spoken3
    /\ CompoundOf(1) = 21 /\ CompoundOf(2) = 20 /\ CompoundOf(3) = 90
    /\ top_quotes = <<[quote |-> <<"\"">> \o M21 \o <<"\"">>, score |-> 90],
                      [quote |-> <<"\"">> \o G21 \o <<"\"">>, score |-> 21]>>

Passes(k) ==
    IF sentiment_type = "positive" THEN CompoundOf(k) > 20 ELSE CompoundOf(k) < -20

Passing == {k \in 1..Len(analyzed_sentences) : Passes(k)}

Min(a, b) == IF a < b THEN a ELSE b

\* C16: for top_n = N >= 0 the result has exactly min(N, k) items, k being the
\* number of candidates that pass the polarity filter.
C16_ExactlyMin ==
    (Ranked /\ top_n >= 0 /\ sentiment_type \in {"positive", "negative"}) =>
        Len(top_quotes) = Min(top_n, Cardinality(Passing))

\* three candidates pass the negative filter and two are asked for
C16_Witness ==
    /\ Ranked /\ sentiment_type = "negative" /\ top_n = 2
    /\ transcript = Spoken3
    /\ Cardinality(Passing) = 3
    /\ Len(top_quotes) = 2

\* the candidates the returned items were made of, in the order returned
Kept == SubSeq(filtered_sentences, 1, Len(top_quotes))

KeptPos == {Kept[k].pos : k \in 1..Len(Kept)}

\* C17: returned candidates of equal score stand in document order, in both
\* polarities, and of the candidates of one score that pass the filter the
\* ones left out by the truncation come later in the document than the ones
\* returned.
C17_StableRanking ==
    Ranked =>
        /\ \A k \in 1..Len(Kept) :
              /\ Kept[k].pos \in Passing
              /\ Kept[k].text = sentences[Kept[k].pos]
              /\ Kept[k].compound = CompoundOf(Kept[k].pos)
              /\ top_quotes[k].score = Kept[k].compound
        /\ \A i, j \in 1..Len(Kept) :
              (i < j /\ Kept[i].compound = Kept[j].compound) => Kept[i].pos < Kept[j].pos
        /\ \A k \in 1..Len(Kept) : \A c \in Passing \ KeptPos :
              CompoundOf(c) = Kept[k].compound => Kept[k].pos < c

\* three candidates score 0.9 and two are asked for: the first two of the
\* document are returned, in document order
C17_Witness ==
    /\ Ranked /\ sentiment_type = "positive" /\ top_n = 2
    /\ transcript = Spoken3
    /\ \A k \in 1..3 : CompoundOf(k) = 90
    /\ top_quotes = <<[quote |-> <<"\"">> \o G21 \o <<"\"">>, score |-> 90],
                      [quote |-> <<"\"">> \o K21 \o <<"\"">>, score |-> 90]>>

Quoted(t) == <<"\"">> \o t \o <<"\"">>

\* a text as split_into_sentences returns it: trimmed, single blanks
SegmentLike(t) ==
    /\ t # <<>> /\ Trimmed(t)
    /\ \A i \in 1..(Len(t) - 1) : ~(t[i] = " " /\ t[i + 1] = " ")

\* C18: the k-th returned item is made of the k-th candidate of the ranking:
\* its score is the candidate's compound score and its quote is the
\* candidate's text in double quotes; format_quote cuts a segment text longer
\* than 200 characters to its first 197 characters plus '...'.
C18_PureProjection ==
    /\ Ranked =>
          /\ Len(top_quotes) <= Len(filtered_sentences)
          /\ \A k \in 1..Len(top_quotes) :
                /\ top_quotes[k].score = CompoundOf(filtered_sentences[k].pos)
                /\ top_quotes[k].quote = Quoted(sentences[filtered_sentences[k].pos])
    /\ (qpc = "format_done" /\ SegmentLike(quote_text)) =>
          quote = Quoted(IF Len(quote_text) > 200
                         THEN SubSeq(quote_text, 1, 197) \o <<".", ".", ".">>
                         ELSE quote_text)

\* two of three candidates pass the negative filter and come back quoted,
\* the lowest first
C18_Witness ==
    /\ Ranked /\ sentiment_type = "negative" /\ top_n = 2
    /\ transcript = Spoken3
    /\ CompoundOf(1) = -21 /\ CompoundOf(2) = 90 /\ CompoundOf(3) = -90
    /\ top_quotes = <<[quote |-> Quoted(M21), score |-> -90],
                      [quote |-> Quoted(G21), score |-> -21]>>

Blank(t) == \A i \in 1..Len(t) : IsSpace(t[i])

\* not blank, and nothing but timestamp markers and whitespace
TimestampOnly(t) == ~Blank(t) /\ Unmarked(t, FALSE) = <<>>

Degenerate(t) == Blank(t) \/ TimestampOnly(t)

\* C19 as claimed: for an empty, whitespace-only or timestamp-only input,
\* split_into_sentences and get_top_quotes both return the empty list.
C19_DegenerateEmpty ==
    /\ (qpc = "split_done" /\ Degenerate(split_text)) => sentences = <<>>
    /\ (Ranked /\ Degenerate(transcript)) => top_quotes = <<>>

\* C19: get_top_quotes returns the empty list for an empty, whitespace-only
\* or timestamp-only transcript, and split_into_sentences for an empty or
\* whitespace-only text; a timestamp-only text given to split_into_sentences
\* itself comes back as one candidate when its trimmed length is strictly
\* between 20 and 200, and as the empty list otherwise.
C19_DegenerateCleaned ==
    /\ (qpc = "split_done" /\ Blank(split_text)) => sentences = <<>>
    /\ (qpc = "split_done" /\ TimestampOnly(split_text)) =>
          sentences = IF Len(Strip(split_text)) > 20 /\ Len(Strip(split_text)) < 200
                      THEN <<Strip(split_text)>> ELSE <<>>
    /\ (Ranked /\ Degenerate(transcript)) =>
          cleaned = <<>> /\ sentences = <<>> /\ top_quotes = <<>>

\* a transcript of three markers yields no quote
C19_Witness ==
    /\ Ranked /\ top_n = 2
    /\ transcript = <<"[", "0", "0", ":", "0", "5", "]", " ",
                      "[", "0", "0", ":", "0", "5", "]", " ",
                      "[", "0", "0", ":", "0", "5", "]", " ">>
    /\ top_quotes = <<>>

----------------------------------------------------------------------------
(* Property of concurrent extract_content calls, checked under SpecCon *)

\* C20: under every interleaving of the strategy invocations of two calls
\* for different URLs, each call returns the result it returns when run
\* alone, and a call that has not returned has no return value.
C20_NoInterference ==
    \A r \in DOMAIN reqs :
        /\ reqs[r].pc = "done" => reqs[r].ret = extract_content(reqs[r].url, reqs[r].site)
        /\ reqs[r].pc # "done" => reqs[r].ret = NotCalled

\* both calls have returned after interleaved steps: the first fell back to
\* its own short trafilatura text, the second failed with the uniform error
C20_Witness ==
    /\ overlapped
    /\ DOMAIN reqs = Requests
    /\ \A r \in Requests : reqs[r].pc = "done" /\ reqs[r].bs_result # NotCalled
    /\ reqs[1].ret["status"] = "success" /\ reqs[1].ret["method"] = "trafilatura"
    /\ Len(reqs[1].ret["text"]) = 50
    /\ reqs[2].ret = UniformError

----------------------------------------------------------------------------
(* Termination of extract_content, checked under SpecLive *)

TimedOut(r, method) ==
    /\ Failed(r)
    /\ "message" \in DOMAIN r
    /\ r["message"] \in {"Error extracting with trafilatura: timed out",
                         "Error extracting with newspaper3k: timed out",
                         "Error extracting with BeautifulSoup: timed out"}
    /\ r["method"] = method

Resolved == pc = "done" /\ (Succeeded(ret) \/ Failed(ret))

\* C21: every call ends with a success result or an error result; a timeout
\* in a strategy becomes that strategy's error result and the next strategy
\* is invoked; at most three strategies are invoked and none twice.
C21_Resolves ==
    /\ <>Resolved
    /\ [](/\ Len(calls) <= 3
          /\ \A i, j \in 1..Len(calls) : i # j => calls[i] # calls[j]
          /\ TimedOut(trafilatura_result, "trafilatura") => pc \in {"newspaper", "beautifulsoup", "done"}
          /\ (pc = "done" /\ TimedOut(trafilatura_result, "trafilatura")) =>
                newspaper_result # NotCalled
          /\ (pc = "done" /\ TimedOut(newspaper_result, "newspaper3k")) =>
                bs_result # NotCalled
          /\ (pc = "done" /\ TimedOut(bs_result, "beautifulsoup")) => Failed(ret) \/ Succeeded(ret))

\* all three strategies timed out, one after the other, and the call ended
\* with the uniform error
C21_Witness ==
    /\ pc = "done"
    /\ calls = Order
    /\ TimedOut(trafilatura_result, "trafilatura")
    /\ TimedOut(newspaper_result, "newspaper3k")
    /\ TimedOut(bs_result, "beautifulsoup")
    /\ ret = UniformError

----------------------------------------------------------------------------
(* Properties of the transcript service and of the API handlers, checked    *)
(* under SpecApi                                                            *)

Called(name) == \E k \in 1..Len(api_calls) : api_calls[k] = name

VideoPrefixes == {YoutubeHost \o <<"w", "a", "t", "c", "h", "?", "v", "=">>, YoutubeHost \o <<"e", "m", "b", "e", "d", "/">>, ShortHost}

\* a standard, short or embed URL of a video: the prefix, the 11 characters
\* of the id, and no id character after them
IsVideoUrl(u) ==
    \E v \in VideoPrefixes :
        /\ StartsAt(u, 1, v)
        /\ IdAt(u, Len(v) + 1)
        /\ Len(u) > Len(v) + 11 => ~IsIdChar(u[Len(v) + 12])

VideoIdOf(u) ==
    LET v == CHOOSE w \in VideoPrefixes : StartsAt(u, 1, w)
    IN  SubSeq(u, Len(v) + 1, Len(v) + 11)

\* an ordinary web page: a URL of a host that serves no videos
IsPageUrl(u) == StartsAt(u, 1, ExampleHost) \/ StartsAt(u, 1, LongHost)

\* C22 as claimed: extract_video_id returns the 11-character id of a standard,
\* short or embed video URL and None for every URL that is not a video URL.
C22_VideoIdOrNone ==
    Called("extract_video_id") =>
        /\ IsVideoUrl(api_url) => video_id = VideoIdOf(api_url)
        /\ IsPageUrl(api_url) => video_id = None

\* C23: POST /transcript raises HTTP 400 'Invalid YouTube URL' without calling
\* get_transcript when there is no video id, and answers 200 with status
\* error, the service's message and the video id, without calling
\* format_transcript, when get_transcript returns status error.
C23_TranscriptErrors ==
    (apc = "done" /\ endpoint = "/transcript") =>
        /\ video_id = None =>
              /\ response = [code |-> 400, detail |-> "Invalid YouTube URL"]
              /\ ~Called("get_transcript")
        /\ (video_id # None /\ api_result["status"] = "error") =>
              /\ Called("get_transcript") /\ ~Called("format_transcript")
              /\ response["code"] = 200
              /\ response["body"] = [status |-> "error",
                                     message |-> api_result["message"],
                                     video_id |-> video_id]

\* the transcripts of the video are disabled
C23_Witness ==
    /\ apc = "done" /\ endpoint = "/transcript"
    /\ api_url = ShortHost \o VideoId
    /\ api_calls = <<"extract_video_id", "get_transcript">>
    /\ response = [code |-> 200,
                   body |-> [status |-> "error",
                             message |-> "Transcripts are disabled for this video",
                             video_id |-> VideoId]]

ContentType ==
    IF "body" \in DOMAIN response THEN response["body"]["content_type"] ELSE "none"

\* C25 as claimed: for a video URL POST /content calls only the transcript
\* service and answers with content_type 'youtube', for every web page URL it
\* calls only extract_content and answers with content_type 'webpage'; never
\* both; a service error is answered as status error with the service's message.
C25_ContentTypeDetected ==
    (apc = "done" /\ endpoint = "/content") =>
        /\ IsVideoUrl(api_url) =>
              /\ Called("get_transcript") /\ ~Called("extract_content")
              /\ ContentType = "youtube"
        /\ IsPageUrl(api_url) =>
              /\ Called("extract_content") /\ ~Called("get_transcript")
              /\ ContentType = "webpage"
        /\ ~(Called("extract_content") /\ Called("get_transcript"))
        /\ api_result["status"] = "error" =>
              /\ response["code"] = 200
              /\ response["body"]["status"] = "error"
              /\ response["body"]["message"] = api_result["message"]

Given(l) == l # None /\ l # <<>>

\* C26: get_transcript returns the transcript of the preferred language when
\* one is given and exists, else the English one; 'language' is the code of
\* the transcript fetched; when transcripts are disabled, neither exists or
\* something else fails, the result is status error with a message and no
\* transcript.
C26_TranscriptOrError ==
    Called("get_transcript") =>
        LET r      == api_result
            usable == library.list = "ok" /\ library.fetch = "ok"
            wanted == IF Given(language) /\ language \in library.available
                      THEN language ELSE En
        IN  /\ r["status"] \in {"success", "error"}
            /\ (usable /\ wanted \in library.available) =>
                  r = [status |-> "success", transcript |-> TranscriptOf(wanted),
                       language |-> wanted]
            /\ ~(usable /\ wanted \in library.available) =>
                  /\ r["status"] = "error"
                  /\ DOMAIN r = {"status", "message"}
                  /\ r["message"] \in {"Transcripts are disabled for this video",
                                       "No transcript found for this video",
                                       "Error retrieving transcript: timed out"}

\* Spanish is asked for, the video has an English transcript only
C26_Witness ==
    /\ apc = "done" /\ endpoint = "none"
    /\ api_calls = <<"get_transcript">>
    /\ language = Es
    /\ library.list = "ok" /\ library.available = {En} /\ library.fetch = "ok"
    /\ api_result["status"] = "success" /\ api_result["language"] = En

----------------------------------------------------------------------------
(* The sub-split pass of split_into_sentences, checked under SpecQuotes *)

\* position k of r is whitespace of the run that follows a comma or semicolon
AfterComma(r, k) ==
    /\ IsSpace(r[k])
    /\ \E c \in 1..(k - 1) :
          /\ r[c] \in {",", ";"}
          /\ \A m \in (c + 1)..k : IsSpace(r[m])

\* ' and ', ' but ', ' or ' or ' so ' ends right before position k of r
AfterConjunction(r, k) ==
    \/ k > 5 /\ SubSeq(r, k - 4, k - 2) \in {<<"a", "n", "d">>, <<"b", "u", "t">>}
             /\ IsSpace(r[k - 5]) /\ IsSpace(r[k - 1])
    \/ k > 4 /\ SubSeq(r, k - 3, k - 2) \in {<<"o", "r">>, <<"s", "o">>}
             /\ IsSpace(r[k - 4]) /\ IsSpace(r[k - 1])

\* a sub-segment of r begins at a / ends at b
SubStart(r, a) ==
    ~AfterComma(r, a) /\ (a = 1 \/ AfterComma(r, a - 1) \/ AfterConjunction(r, a))

SubEnd(r, b) ==
    ~AfterComma(r, b) /\ (b = Len(r) \/ AfterComma(r, b + 1) \/ AfterConjunction(r, b + 1))

\* the sub-segments of r, as spans of r
SubSegments(r) ==
    LET ends == {b \in 1..Len(r) : SubEnd(r, b)}
    IN  {Span(a, CHOOSE b \in ends : b >= a /\ \A c \in ends : c >= a => b <= c) :
            a \in {k \in 1..Len(r) : SubStart(r, k)}}

Shifted(sp, by) == Span(sp.lo + by, sp.hi + by)

InRange(sp) == SpanLen(sp) > 20 /\ SpanLen(sp) < 200

\* what the coarse segment raw of s contributes to the result
ExpectedOf(s, raw) ==
    LET whole == StripSpan(s, raw)
    IN  IF SpanLen(whole) <= 100
        THEN IF InRange(whole) THEN {whole} ELSE {}
        ELSE LET r == SubSeq(s, raw.lo, raw.hi)
             IN  {sp \in {StripSpan(s, Shifted(sub, raw.lo - 1)) : sub \in SubSegments(r)} :
                     InRange(sp)}

\* C24: a coarse segment of at most 100 characters (trimmed) is emitted whole,
\* whatever commas and conjunctions it has; a longer one is split at a comma
\* or semicolon followed by whitespace and right after ' and ', ' but ',
\* ' or ', ' so ', and its sub-segments of more than 20 characters are kept.
C24_SubSplit ==
    Segmented =>
        LET raws == raw_splits(split_text)
        IN  {spans[k] : k \in 1..Len(spans)} =
                UNION {ExpectedOf(split_text, raws[k]) : k \in 1..Len(raws)}

\* 163 characters with ' and ' in the middle are split after ' and '
C24_Witness ==
    /\ qpc = "split_done"
    /\ split_text = Rep(79) \o <<" ", "a", "n", "d", " ">> \o Rep(79)
    /\ sentences = <<Rep(79) \o <<" ", "a", "n", "d">>, Rep(79)>>

\* 100 characters with a comma come back whole
C24_WholeWitness ==
    /\ qpc = "split_done"
    /\ split_text = Rep(19) \o <<",", " ">> \o Rep(79)
    /\ sentences = <<split_text>>

----------------------------------------------------------------------------
(* analyze_sentiment of enhanced_client.py, checked under SpecQuotes *)

\* C27: analyze_sentiment returns, for every text and top_n, a dictionary
\* with the keys top_positive and top_negative, and does not raise.
C27_SentimentDictionary ==
    qpc = "sentiment_done" =>
        /\ "raised" \notin DOMAIN sentiment_results
        /\ {"top_positive", "top_negative"} \subseteq DOMAIN sentiment_results

----------------------------------------------------------------------------
(* The polarity selector of get_top_quotes, checked under SpecQuotes *)

Below == {k \in 1..Len(analyzed_sentences) : CompoundOf(k) < -20}

\* C30: every sentiment_type other than 'positive' is treated as 'negative':
\* the result holds the lowest candidates scoring below -0.2, in ascending
\* score order, and is not empty when such candidates exist and top_n >= 1.
C30_OtherThanPositive ==
    (Ranked /\ sentiment_type # "positive") =>
        /\ \A k \in 1..Len(top_quotes) :
              /\ top_quotes[k].score < -20
              /\ Kept[k].pos \in Below
              /\ top_quotes[k].score = CompoundOf(Kept[k].pos)
        /\ \A k \in 1..(Len(top_quotes) - 1) :
              top_quotes[k].score <= top_quotes[k + 1].score
        /\ top_n >= 0 =>
              /\ Len(top_quotes) = Min(top_n, Cardinality(Below))
              /\ \A k \in 1..Len(top_quotes) : \A c \in Below \ KeptPos :
                    top_quotes[k].score <= CompoundOf(c)
        /\ top_n < 0 => Len(top_quotes) = Cardinality(Below) + top_n \/ top_quotes = <<>>

\* with 'Positive' two of three candidates score below -0.2 and come back,
\* the lowest first
C30_Witness ==
    /\ Ranked /\ sentiment_type = "Positive" /\ top_n = 2
    /\ transcript = Spoken3
    /\ CompoundOf(1) = -21 /\ CompoundOf(2) = 90 /\ CompoundOf(3) = -90
    /\ top_quotes = <<[quote |-> Quoted(M21), score |-> -90],
                      [quote |-> Quoted(G21), score |-> -21]>>

----------------------------------------------------------------------------
(* What extract_content returns for a valid URL, checked under Spec *)

\* the results of the strategies invoked so far, in the order of the calls
Invoked ==
    SubSeq(<<trafilatura_result, newspaper_result, bs_result>>, 1, Len(calls))

Answered == pc = "done" /\ ~LacksSchemeOrHost

TheUniformError ==
    [status |-> "error",
     message |-> "Failed to extract content from the URL using all available methods"]

\* C28: the result for a valid URL is the uniform error or, unmodified, the
\* result of exactly one invoked strategy, a success with a non-empty text; a
\* trafilatura or newspaper3k result of 200 characters or fewer is returned
\* only when all three strategies were invoked and beautifulsoup failed or
\* gave an empty text; the beautifulsoup result is returned only as the
\* accepted scraper result, never as the pick of the final loop.
C28_ReturnedResult ==
    Answered =>
        /\ \/ ret = TheUniformError
           \/ /\ Cardinality({i \in 1..Len(Invoked) : Invoked[i] = ret}) = 1
              /\ Usable(ret)
        /\ \A i \in 1..Min(2, Len(Invoked)) :
              (ret = Invoked[i] /\ TextLen(ret) <= 200) =>
                  /\ Len(calls) = 3
                  /\ Failed(bs_result) \/ TextLen(bs_result) = 0
        /\ (Len(calls) = 3 /\ ~Usable(bs_result)) => ret # bs_result

\* trafilatura gives 50 characters, newspaper3k 199 and beautifulsoup an
\* empty text: the loop returns the trafilatura result
C28_Witness ==
    /\ Answered
    /\ Succeeded(trafilatura_result) /\ TextLen(trafilatura_result) = 50
    /\ Succeeded(newspaper_result) /\ TextLen(newspaper_result) = 199
    /\ Succeeded(bs_result) /\ TextLen(bs_result) = 0
    /\ ret = trafilatura_result

\* C29: the uniform error is returned when every strategy failed and also
\* when every strategy that succeeded has an empty text; a success with an
\* empty text is never returned.
C29_EmptySuccessIsFailure ==
    Answered =>
        /\ (Len(calls) = 3 /\ \A i \in 1..3 : Failed(Invoked[i]) \/ TextLen(Invoked[i]) = 0)
              => ret = TheUniformError
        /\ Succeeded(ret) => TextLen(ret) > 0

\* trafilatura fails, newspaper3k and beautifulsoup succeed with empty texts
C29_Witness ==
    /\ Answered
    /\ Failed(trafilatura_result)
    /\ Succeeded(newspaper_result) /\ TextLen(newspaper_result) = 0
    /\ Succeeded(bs_result) /\ TextLen(bs_result) = 0
    /\ ret = TheUniformError

====
